---- MODULE Spec2Model ----
(***************************************************************************)
(* A model of the Tubular compiler driver and middle end: the command line *)
(* of main(), ParsePassOrderSpec, the PassManager pipeline, and the three  *)
(* AST passes (function inlining, loop unrolling, tail-recursion           *)
(* loopification).                                                         *)
(***************************************************************************)
EXTENDS Integers, Sequences, FiniteSets, TLC

VARIABLES
  \* ---- ParsePassOrderSpec (src/Tubular.cpp:43-84) ----
  spec,        \* the text after "--pass-order="
  ss,          \* the unread rest of std::stringstream ss(spec)
  order,       \* std::vector<PassId> order
  poState,     \* "flag" | "getline" | "ok" | "exit1" | "idle"
  \* ---- LoopUnrollingPass on one loop, and the two executions ----
  unrollFactor, \* LoopUnrollingPass::unrollFactor
  uOriginal,   \* the While as parsed
  uBlock,      \* the Block that holds it (the argument of processBlock)
  uStart,      \* the variable state both executions start from
  uPc,         \* "pass" | "orig" | "main" | "rem" | "done" | "kept" | "capped" |
               \* "trapped" | "idle"
  uEnvO,       \* variables and effects of the run of the original loop
  uEnvT,       \* variables and effects of the run of the replacement
  uIters,      \* iterations executed: [orig, main, rem]
  \* ---- TailRecursionPass on one function ----
  tOriginal,   \* the function as parsed
  tFn,         \* the function the pass works on
  tPc,         \* "pass" | "again" | "call" | "done" | "idle"
  tUb,         \* the pass dereferenced an empty pointer
  tResult,     \* results of calling the parsed and the rewritten function
  tType,       \* the return type the symbol table holds for the function
  tFirst,      \* the function after the first run of the pass
  \* ---- FunctionInliningPass over the functions of one program ----
  iOriginal,   \* the functions as parsed
  iProg,       \* the functions as they are now
  iFm,         \* functionMap: the ids of the functions collected so far
  iNext,       \* number of the function the pass runs on next
  iPc,         \* "pass" | "call" | "done" | "idle"
  iResult,     \* results of calling the parsed and the rewritten caller
  \* ---- ASTCloner::clone on one tree ----
  cHeap,       \* the nodes alive: cHeap[a] is the node at address a
  cRoot,       \* the address of the node handed to clone
  cCopy,       \* the address clone returned, 0 for an empty pointer
  cFormat,     \* the prefix of ASTNode_CharLit::GetTypeName()
  cPc,         \* "clone" | "done" | "idle"
  \* ---- LoopUnrollingPass::processBlock, one step of its loops at a time ----
  bOriginal,   \* the Block as parsed
  bTree,       \* the Block as it is now
  bFactor,     \* LoopUnrollingPass::unrollFactor
  bStack,      \* the calls of processBlock in progress, innermost last
  bLog,        \* the places of the loops replaced so far, in order
  bPc,         \* "walk" | "done" | "capped" | "idle"
  \* ---- main ----
  argv,        \* the command line, argv[1] the program name
  source,      \* the functions the parser builds from the input file
  pc,          \* "start" | "flags" | "parse" | "addPasses" | "run" | "wat" | "exit" | "idle"
  argi,        \* the loop variable i of main (0-based)
  opt,         \* the option variables of main
  exitCode,    \* the exit status once pc = "exit", -1 before
  functions,   \* Tubular::functions, empty until Parse
  passes,      \* PassManager::passes
  cur,         \* [fn, pass]: the function and the pass that run next
  functionMap, \* FunctionInliningPass::functionMap, as the set of its keys
  runLog       \* the calls pass->run(function) made so far

orderVars == <<spec, ss, order, poState>>
unrollVars == <<unrollFactor, uOriginal, uBlock, uStart, uPc, uEnvO, uEnvT, uIters>>
tailVars == <<tOriginal, tFn, tPc, tUb, tResult, tType, tFirst>>
inlineVars == <<iOriginal, iProg, iFm, iNext, iPc, iResult>>
cloneVars == <<cHeap, cRoot, cCopy, cFormat, cPc>>
walkVars == <<bOriginal, bTree, bFactor, bStack, bLog, bPc>>
mainVars == <<argv, source, pc, argi, opt, exitCode, functions, passes, cur, functionMap,
              runLog>>

vars == <<spec, ss, order, poState,
          unrollFactor, uOriginal, uBlock, uStart, uPc, uEnvO, uEnvT, uIters,
          tOriginal, tFn, tPc, tUb, tResult, tType, tFirst,
          iOriginal, iProg, iFm, iNext, iPc, iResult,
          cHeap, cRoot, cCopy, cFormat, cPc,
          bOriginal, bTree, bFactor, bStack, bLog, bPc,
          argv, source, pc, argi, opt, exitCode, functions, passes, cur, functionMap,
          runLog>>

-----------------------------------------------------------------------------
(* Characters and strings.  A C++ std::string is a TLA+ string; a          *)
(* character is a string of length one.                                     *)

CharAt(s, i) == SubSeq(s, i, i)

\* std::string::substr(pos) with a 0-based pos
Substr(s, pos) == SubSeq(s, pos + 1, Len(s))

\* flag.rfind(prefix, 0) == 0
StartsWith(s, prefix) ==
  /\ Len(s) >= Len(prefix)
  /\ SubSeq(s, 1, Len(prefix)) = prefix

\* std::isspace in the "C" locale
IsSpace(c) == c \in {" ", "\t", "\n", "\r", "\f"}

UpperChars == "ABCDEFGHIJKLMNOPQRSTUVWXYZ"
LowerChars == "abcdefghijklmnopqrstuvwxyz"

\* std::tolower on one character
ToLowerChar(c) ==
  IF \E i \in 1..Len(UpperChars) : CharAt(UpperChars, i) = c
    THEN CharAt(LowerChars, CHOOSE i \in 1..Len(UpperChars) : CharAt(UpperChars, i) = c)
    ELSE c

RECURSIVE Lowered(_)
Lowered(s) ==
  IF Len(s) = 0 THEN "" ELSE ToLowerChar(CharAt(s, 1)) \o Lowered(Substr(s, 1))

\* TrimCopy: the two index loops, then substr(start, end - start)
RECURSIVE TrimStart(_, _)
TrimStart(input, start) ==
  IF start < Len(input) /\ IsSpace(CharAt(input, start + 1))
    THEN TrimStart(input, start + 1)
    ELSE start

RECURSIVE TrimEnd(_, _, _)
TrimEnd(input, start, end) ==
  IF end > start /\ IsSpace(CharAt(input, end))
    THEN TrimEnd(input, start, end - 1)
    ELSE end

TrimCopy(input) ==
  LET start == TrimStart(input, 0)
      end   == TrimEnd(input, start, Len(input))
  IN SubSeq(input, start + 1, end)

\* position (1-based) of the first delim in s, 0 when there is none
RECURSIVE FindChar(_, _, _)
FindChar(s, delim, from) ==
  IF from > Len(s) THEN 0
  ELSE IF CharAt(s, from) = delim THEN from
  ELSE FindChar(s, delim, from + 1)

\* std::getline(ss, token, ','): fails on an exhausted stream, otherwise
\* extracts up to (and consumes) the next delimiter or the end of the stream
Getline(stream) ==
  IF Len(stream) = 0 THEN [ok |-> FALSE, token |-> "", rest |-> ""]
  ELSE LET p == FindChar(stream, ",", 1) IN
       IF p = 0 THEN [ok |-> TRUE, token |-> stream, rest |-> ""]
       ELSE [ok |-> TRUE, token |-> SubSeq(stream, 1, p - 1), rest |-> Substr(stream, p)]

-----------------------------------------------------------------------------
(* ParsePassOrderSpec                                                       *)

PassIds == {"Inline", "Unroll", "Tail"}

InSeq(x, s) == \E i \in 1..Len(s) : s[i] = x

\* lines 59-69: the name of a pass, "" for an unknown name
PassIdOf(lowered) ==
  CASE lowered = "inline" -> "Inline"
    [] lowered = "unroll" -> "Unroll"
    [] lowered = "tail"   -> "Tail"
    [] OTHER -> ""

\* PassOrderIter without the duplicate test of lines 71-74
PassOrderIter_NoDuplicateCheck(st) ==
  LET g == Getline(st.ss) IN
  IF ~g.ok THEN
    IF Len(st.order) # 3 THEN [st EXCEPT !.status = "exit1"]
                         ELSE [st EXCEPT !.status = "ok"]
  ELSE
    LET trimmed == TrimCopy(g.token)
        passId  == PassIdOf(Lowered(trimmed))
    IN IF Len(trimmed) = 0 THEN [st EXCEPT !.ss = g.rest]
       ELSE IF passId = "" THEN [st EXCEPT !.ss = g.rest, !.status = "exit1"]
       ELSE [st EXCEPT !.ss = g.rest, !.order = Append(st.order, passId)]

\* One iteration of the while (std::getline ...) loop, or the check after it.
\* st = [ss, order, status], status in {"run", "ok", "exit1"}.
PassOrderIter(st) ==
  LET g == Getline(st.ss) IN
  IF ~g.ok THEN
    \* loop is over: lines 78-83
    IF Len(st.order) # 3 THEN [st EXCEPT !.status = "exit1"]
                         ELSE [st EXCEPT !.status = "ok"]
  ELSE
    LET trimmed == TrimCopy(g.token)
        lowered == Lowered(trimmed)
        passId  == PassIdOf(lowered)
    IN IF Len(trimmed) = 0 THEN [st EXCEPT !.ss = g.rest]
       ELSE IF passId = "" THEN [st EXCEPT !.ss = g.rest, !.status = "exit1"]
       ELSE IF InSeq(passId, st.order) THEN [st EXCEPT !.ss = g.rest, !.status = "exit1"]
       ELSE [st EXCEPT !.ss = g.rest, !.order = Append(st.order, passId)]

RECURSIVE PassOrderLoop(_)
PassOrderLoop(st) ==
  IF st.status # "run" THEN st ELSE PassOrderLoop(PassOrderIter(st))

\* the whole function: [ok, order]; ok = FALSE stands for exit(1)
ParsePassOrderSpec(s) ==
  LET r == PassOrderLoop([ss |-> s, order |-> <<>>, status |-> "run"])
  IN [ok |-> r.status = "ok", order |-> r.order]


-----------------------------------------------------------------------------
(* The AST.  A node is a record [kind, op, val, ch]: op is the operator of *)
(* a Math1/Math2, val the literal value, variable id or function id, ch     *)
(* the children in order.  Null stands for an empty std::unique_ptr.        *)

Node(kind, op, val, ch) == [kind |-> kind, op |-> op, val |-> val, ch |-> ch]

Null == Node("Null", "", 0, <<>>)

IntLit(v)        == Node("IntLit", "", v, <<>>)
CharLit(v)       == Node("CharLit", "", v, <<>>)
Var(id)          == Node("Var", "", id, <<>>)
Math1(op, a)     == Node("Math1", op, 0, <<a>>)
Math2(op, l, r)  == Node("Math2", op, 0, <<l, r>>)
ToInt(a)         == Node("ToInt", "", 0, <<a>>)
Call(f, args)    == Node("FunctionCall", "", f, args)
If2(c, t)        == Node("If", "", 0, <<c, t>>)
If3(c, t, e)     == Node("If", "", 0, <<c, t, e>>)
While(c, b)      == Node("While", "", 0, <<c, b>>)
Return(e)        == Node("Return", "", 0, <<e>>)
Block(stmts)     == Node("Block", "", 0, stmts)
Break            == Node("Break", "", 0, <<>>)
Continue         == Node("Continue", "", 0, <<>>)
Assign(v, e)     == Math2("=", Var(v), e)

\* ASTNode_Function: function id, parameter ids, one child (the body)
Function(f, params, body) ==
  [kind |-> "Function", op |-> "", val |-> f, ch |-> <<body>>, params |-> params]

NumChildren(n) == Len(n.ch)

\* the function with id f among the functions P, Null if there is none
FindFunction(P, f) ==
  IF \E i \in 1..Len(P) : P[i].val = f
    THEN P[CHOOSE i \in 1..Len(P) : P[i].val = f]
    ELSE Null

\* ASTNode_Parent::ReplaceChild
ReplaceChild(n, i, c) == [n EXCEPT !.ch[i] = c]

\* the non-null elements of a sequence of nodes, in order
RECURSIVE DropNull(_)
DropNull(s) ==
  IF Len(s) = 0 THEN <<>>
  ELSE IF Head(s) = Null THEN DropNull(Tail(s))
  ELSE <<Head(s)>> \o DropNull(Tail(s))

-----------------------------------------------------------------------------
(* LoopUnrollingPass: LoopAnalyzer                                          *)

NoPattern ==
  [isUnrollable |-> FALSE, loopVar |-> 0, comparison |-> "", increment |-> 0,
   incrementNode |-> 0]

\* [ok, varName, increment]
isSimpleIncrement(node) ==
  IF /\ node.kind = "Math2" /\ node.op = "=" /\ NumChildren(node) >= 2
     /\ node.ch[1].kind = "Var"
     /\ node.ch[2].kind = "Math2"
     /\ node.ch[2].op \in {"+", "-"}
     /\ NumChildren(node.ch[2]) >= 2
     /\ node.ch[2].ch[1].kind = "Var"
     /\ node.ch[2].ch[1].val = node.ch[1].val
     /\ node.ch[2].ch[2].kind = "IntLit"
  THEN [ok |-> TRUE, varName |-> node.ch[1].val,
        increment |-> IF node.ch[2].op = "-" THEN -(node.ch[2].ch[2].val)
                                             ELSE node.ch[2].ch[2].val]
  ELSE [ok |-> FALSE, varName |-> 0, increment |-> 0]

ComparisonOps == {"<=", "<", ">=", ">", "!=", "=="}

\* [ok, leftVar, op]; the right operand is a variable or an integer literal
isSimpleComparison(node) ==
  IF /\ node.kind = "Math2"
     /\ node.op \in ComparisonOps
     /\ NumChildren(node) >= 2
     /\ node.ch[1].kind = "Var"
     /\ node.ch[2].kind \in {"Var", "IntLit"}
  THEN [ok |-> TRUE, leftVar |-> node.ch[1].val, op |-> node.op]
  ELSE [ok |-> FALSE, leftVar |-> 0, op |-> ""]

\* index of the first child of body that is a simple increment of varName,
\* 0 when there is none (the code returns a pointer to that child)
findIncrementStatement(body, varName) ==
  LET hits == {i \in 1..NumChildren(body) :
                 /\ isSimpleIncrement(body.ch[i]).ok
                 /\ isSimpleIncrement(body.ch[i]).varName = varName}
  IN IF hits = {} THEN 0 ELSE CHOOSE i \in hits : \A j \in hits : i <= j

RECURSIVE hasUnsuitableControlFlow(_)
hasUnsuitableControlFlow(node) ==
  \/ node.kind \in {"Break", "Continue", "Return", "While"}
  \/ \E i \in 1..NumChildren(node) : hasUnsuitableControlFlow(node.ch[i])

isAssignmentTo(node, varName) ==
  /\ node.kind = "Math2" /\ node.op = "=" /\ NumChildren(node) >= 1
  /\ node.ch[1].kind = "Var"
  /\ node.ch[1].val = varName

hasMultipleAssignments(body, varName) ==
  Cardinality({i \in 1..NumChildren(body) : isAssignmentTo(body.ch[i], varName)}) > 1

analyzeLoop(loop) ==
  IF NumChildren(loop) < 2 THEN NoPattern
  ELSE
    LET cmp  == isSimpleComparison(loop.ch[1])
        body == loop.ch[2]
    IN IF ~cmp.ok THEN NoPattern
       ELSE IF body.kind # "Block" THEN NoPattern
       ELSE IF hasUnsuitableControlFlow(body) THEN NoPattern
       ELSE
         LET inc == findIncrementStatement(body, cmp.leftVar) IN
         IF inc = 0 THEN NoPattern
         ELSE IF hasMultipleAssignments(body, cmp.leftVar) THEN NoPattern
         ELSE [isUnrollable |-> TRUE, loopVar |-> cmp.leftVar,
               comparison |-> cmp.op,
               increment |-> isSimpleIncrement(body.ch[inc]).increment,
               incrementNode |-> inc]

-----------------------------------------------------------------------------
(* LoopUnrollingPass: its private ASTCloner (Math2, Var, IntLit, Block)     *)

RECURSIVE Unroll_clone(_)
Unroll_clone(node) ==
  CASE node.kind = "Math2" ->
         IF NumChildren(node) >= 2
           THEN LET l == Unroll_clone(node.ch[1])
                    r == Unroll_clone(node.ch[2])
                IN IF l # Null /\ r # Null THEN Math2(node.op, l, r) ELSE Null
           ELSE Null
    [] node.kind = "Var" -> Var(node.val)
    [] node.kind = "IntLit" -> IntLit(node.val)
    [] node.kind = "Block" ->
         Block(DropNull([i \in 1..NumChildren(node) |-> Unroll_clone(node.ch[i])]))
    [] OTHER -> Null

-----------------------------------------------------------------------------
(* LoopUnrollingPass: the rewrite                                           *)

RECURSIVE cloneWithInductionVariableSubstitution(_, _, _)
cloneWithInductionVariableSubstitution(node, loopVar, offset) ==
  IF node.kind = "Var" THEN
    IF node.val = loopVar /\ offset # 0
      THEN IF offset >= 0 THEN Math2("+", Var(node.val), IntLit(offset))
                          ELSE Math2("-", Var(node.val), IntLit(-offset))
      ELSE Var(node.val)
  ELSE IF node.kind = "Math2" /\ NumChildren(node) >= 2 THEN
    LET l == cloneWithInductionVariableSubstitution(node.ch[1], loopVar, offset)
        r == cloneWithInductionVariableSubstitution(node.ch[2], loopVar, offset)
    IN IF l # Null /\ r # Null THEN Math2(node.op, l, r) ELSE Unroll_clone(node)
  ELSE Unroll_clone(node)

\* loop_var = loop_var + (unrollFactor * increment)
createFinalIncrement(body, pattern, factor) ==
  IF pattern.incrementNode = 0 THEN Null
  ELSE LET inc == body.ch[pattern.incrementNode] IN
       IF inc.kind = "Math2" /\ NumChildren(inc) >= 1 /\ inc.ch[1].kind = "Var"
         THEN Math2("=", Var(inc.ch[1].val),
                    Math2("+", Var(inc.ch[1].val), IntLit(factor * pattern.increment)))
         ELSE Null

\* the clones of copy i (0-based) of the body, the increment statement skipped
UnrolledCopy(body, pattern, i) ==
  DropNull([j \in 1..NumChildren(body) |->
    IF j = pattern.incrementNode THEN Null
    ELSE cloneWithInductionVariableSubstitution(body.ch[j], pattern.loopVar,
                                                i * pattern.increment)])

RECURSIVE UnrolledCopies(_, _, _, _)
UnrolledCopies(body, pattern, i, factor) ==
  IF i >= factor THEN <<>>
  ELSE UnrolledCopy(body, pattern, i) \o UnrolledCopies(body, pattern, i + 1, factor)

createFullyUnrolledBody(body, pattern, factor) ==
  Block(UnrolledCopies(body, pattern, 0, factor)
        \o DropNull(<<createFinalIncrement(body, pattern, factor)>>))

\* adjustConditionForUnrolling subtracting factor, not factor - 1, for <
adjustConditionForUnrolling_OffByOne(cond, pattern, factor) ==
  IF cond.kind = "Math2" /\ NumChildren(cond) >= 2 THEN
    CASE cond.op = "<" /\ pattern.increment > 0 ->
           Math2("<", Unroll_clone(cond.ch[1]),
                 Math2("-", Unroll_clone(cond.ch[2]), IntLit(factor)))
      [] cond.op = "<=" /\ pattern.increment > 0 ->
           Math2("<=", Unroll_clone(cond.ch[1]),
                 Math2("-", Unroll_clone(cond.ch[2]), IntLit(factor)))
      [] cond.op = ">" /\ pattern.increment < 0 ->
           Math2(">", Unroll_clone(cond.ch[1]),
                 Math2("+", Unroll_clone(cond.ch[2]), IntLit(factor - 1)))
      [] cond.op = ">=" /\ pattern.increment < 0 ->
           Math2(">=", Unroll_clone(cond.ch[1]),
                 Math2("+", Unroll_clone(cond.ch[2]), IntLit(factor)))
      [] OTHER -> Unroll_clone(cond)
  ELSE Unroll_clone(cond)

adjustConditionForUnrolling(cond, pattern, factor) ==
  IF cond.kind = "Math2" /\ NumChildren(cond) >= 2 THEN
    CASE cond.op = "<" /\ pattern.increment > 0 ->
           Math2("<", Unroll_clone(cond.ch[1]),
                 Math2("-", Unroll_clone(cond.ch[2]), IntLit(factor - 1)))
      [] cond.op = "<=" /\ pattern.increment > 0 ->
           Math2("<=", Unroll_clone(cond.ch[1]),
                 Math2("-", Unroll_clone(cond.ch[2]), IntLit(factor)))
      [] cond.op = ">" /\ pattern.increment < 0 ->
           Math2(">", Unroll_clone(cond.ch[1]),
                 Math2("+", Unroll_clone(cond.ch[2]), IntLit(factor - 1)))
      [] cond.op = ">=" /\ pattern.increment < 0 ->
           Math2(">=", Unroll_clone(cond.ch[1]),
                 Math2("+", Unroll_clone(cond.ch[2]), IntLit(factor)))
      [] OTHER -> Unroll_clone(cond)
  ELSE Unroll_clone(cond)

\* createMainUnrolledLoop adjusting the condition for one copy more
createMainUnrolledLoop_WiderMargin(original, pattern, factor) ==
  IF NumChildren(original) < 2 THEN Null
  ELSE IF original.ch[2].kind # "Block" THEN Null
  ELSE LET unrolledBody == createFullyUnrolledBody(original.ch[2], pattern, factor)
           adjusted     == adjustConditionForUnrolling(original.ch[1], pattern, factor + 1)
       IN IF adjusted = Null THEN Null ELSE While(adjusted, unrolledBody)

createMainUnrolledLoop(original, pattern, factor) ==
  IF NumChildren(original) < 2 THEN Null
  ELSE IF original.ch[2].kind # "Block" THEN Null
  ELSE LET unrolledBody == createFullyUnrolledBody(original.ch[2], pattern, factor)
           adjusted     == adjustConditionForUnrolling(original.ch[1], pattern, factor)
       IN IF adjusted = Null THEN Null ELSE While(adjusted, unrolledBody)

createRemainderLoop(original) ==
  IF NumChildren(original) < 2 THEN Null
  ELSE LET c == Unroll_clone(original.ch[1])
           b == Unroll_clone(original.ch[2])
       IN IF c # Null /\ b # Null THEN While(c, b) ELSE Null

createUnrolledBlock(original, pattern, factor) ==
  Block(DropNull(<<createMainUnrolledLoop(original, pattern, factor),
                   createRemainderLoop(original)>>))

isUnrollableLoop(loop) == analyzeLoop(loop).isUnrollable

RECURSIVE Unroll_run(_, _), processBlock(_, _)

\* the three passes over the children of a block
processBlock(block, factor) ==
  LET n == NumChildren(block)
      replaced == {i \in 1..n : block.ch[i].kind = "While" /\ isUnrollableLoop(block.ch[i])}
      first == [i \in 1..n |->
                 IF block.ch[i].kind = "While" THEN block.ch[i]
                 ELSE Unroll_run(block.ch[i], factor)]
      second == [i \in 1..n |->
                 IF i \in replaced
                   THEN createUnrolledBlock(block.ch[i], analyzeLoop(block.ch[i]), factor)
                   ELSE first[i]]
      third == [i \in 1..n |->
                 IF i \in replaced THEN second[i]
                 ELSE IF second[i].kind = "While" THEN
                        IF NumChildren(second[i]) > 1
                          THEN ReplaceChild(second[i], 2, Unroll_run(second[i].ch[2], factor))
                          ELSE second[i]
                 ELSE IF second[i].kind = "Block" THEN Unroll_run(second[i], factor)
                 ELSE second[i]]
  IN [block EXCEPT !.ch = third]

\* LoopUnrollingPass::run (processFunction folded in)
Unroll_run(node, factor) ==
  IF factor <= 1 THEN node
  ELSE IF node.kind = "Function" THEN
    IF NumChildren(node) > 0
      THEN ReplaceChild(node, 1, Unroll_run(node.ch[1], factor))
      ELSE node
  ELSE IF node.kind = "Block" THEN processBlock(node, factor)
  ELSE [node EXCEPT !.ch = [i \in 1..NumChildren(node) |-> Unroll_run(node.ch[i], factor)]]

-----------------------------------------------------------------------------
(* TailRecursionPass: its private Cloner                                    *)

RECURSIVE Tail_clone(_)
Tail_clone(n) ==
  LET kids == [i \in 1..NumChildren(n) |-> Tail_clone(n.ch[i])]
      allOk == \A i \in 1..NumChildren(n) : kids[i] # Null
  IN
  CASE n.kind = "Block" -> Block(DropNull(kids))
    [] n.kind = "While" ->
         IF NumChildren(n) < 2 THEN Null
         ELSE IF kids[1] # Null /\ kids[2] # Null THEN While(kids[1], kids[2]) ELSE Null
    [] n.kind = "If" ->
         IF NumChildren(n) = 2 /\ allOk THEN If2(kids[1], kids[2])
         ELSE IF NumChildren(n) = 3 /\ allOk THEN If3(kids[1], kids[2], kids[3])
         ELSE Null
    [] n.kind = "Return" ->
         IF NumChildren(n) < 1 THEN Null
         ELSE IF kids[1] # Null THEN Return(kids[1]) ELSE Null
    [] n.kind = "Math2" ->
         IF NumChildren(n) < 2 THEN Null
         ELSE IF kids[1] # Null /\ kids[2] # Null THEN Math2(n.op, kids[1], kids[2]) ELSE Null
    [] n.kind = "Math1" ->
         IF NumChildren(n) < 1 THEN Null
         ELSE IF kids[1] # Null THEN Math1(n.op, kids[1]) ELSE Null
    [] n.kind = "Var" -> Var(n.val)
    [] n.kind = "IntLit" -> IntLit(n.val)
    [] n.kind = "FloatLit" -> Node("FloatLit", "", n.val, <<>>)
    \* (int)(ch->GetTypeName().size() > 0): the type name is never empty
    [] n.kind = "CharLit" -> CharLit(1)
    \* the text of a string literal is held in op
    [] n.kind = "StringLit" -> Node("StringLit", n.op, n.val, <<>>)
    [] n.kind = "FunctionCall" -> Call(n.val, DropNull(kids))
    [] n.kind = "Indexing" ->
         IF NumChildren(n) < 2 THEN Null
         ELSE IF kids[1] # Null /\ kids[2] # Null
           THEN Node("Indexing", "", 0, <<kids[1], kids[2]>>) ELSE Null
    [] n.kind = "Size" ->
         IF NumChildren(n) < 1 THEN Null
         ELSE IF kids[1] # Null THEN Node("Size", "", 0, <<kids[1]>>) ELSE Null
    [] n.kind = "Break" -> Break
    [] n.kind = "Continue" -> Continue
    [] OTHER -> Null

-----------------------------------------------------------------------------
(* TailRecursionPass: the rewrite.  Parameter indices are 1-based here      *)
(* (index i stands for the code's i - 1).                                   *)

\* the indices of the parameters a subtree reads
RECURSIVE CollectParamDeps(_, _)
CollectParamDeps(node, params) ==
  IF node.kind = "Var"
    THEN {idx \in 1..Len(params) : params[idx] = node.val
                                   /\ \A j \in 1..(idx - 1) : params[j] # node.val}
    ELSE UNION {CollectParamDeps(node.ch[i], params) : i \in 1..NumChildren(node)}

\* a set of indices as the sequence in which a std::unordered_set yields
\* them; hashOrder is the (unspecified) iteration order of the container
RECURSIVE InOrderOf(_, _)
InOrderOf(set, hashOrder) ==
  IF Len(hashOrder) = 0 THEN <<>>
  ELSE IF Head(hashOrder) \in set THEN <<Head(hashOrder)>> \o InOrderOf(set, Tail(hashOrder))
  ELSE InOrderOf(set, Tail(hashOrder))

\* for (size_t v : graph[u]) { if (--indeg[v] == 0) q.push(v); }
RECURSIVE KahnRelax(_, _, _)
KahnRelax(succ, indeg, q) ==
  IF Len(succ) = 0 THEN [indeg |-> indeg, q |-> q]
  ELSE LET v == Head(succ)
           d == [indeg EXCEPT ![v] = @ - 1]
       IN KahnRelax(Tail(succ), d, IF d[v] = 0 THEN Append(q, v) ELSE q)

\* while (!q.empty()) { u = q.front(); q.pop(); order.push_back(u); ... }
RECURSIVE KahnLoop(_, _, _, _)
KahnLoop(graph, indeg, q, ord) ==
  IF Len(q) = 0 THEN ord
  ELSE LET u == Head(q)
           r == KahnRelax(graph[u], indeg, Tail(q))
       IN KahnLoop(graph, r.indeg, r.q, Append(ord, u))

TxRes(node, changed, ub) == [node |-> node, changed |-> changed, ub |-> ub]

\* KahnOrder with the edges turned round: j -> i when argument i reads j
KahnOrder_ReversedEdges(k, nodes, deps, hashOrder) ==
  LET inNodes(j) == InSeq(j, nodes)
      graph == [j \in 1..k |->
                  IF inNodes(j)
                    THEN InOrderOf({i \in 1..k : inNodes(i) /\ j # i /\ j \in deps[i]}, hashOrder)
                    ELSE <<>>]
      indeg == [i \in 1..k |->
                  IF inNodes(i) THEN Cardinality({j \in deps[i] : j # i /\ inNodes(j)}) ELSE 0]
      q0 == SelectSeq(nodes, LAMBDA i : indeg[i] = 0)
  IN KahnLoop(graph, indeg, q0, <<>>)

\* lines 163-183: nodes, graph, in-degrees, and the order Kahn's algorithm
\* produces; deps[i] is the set of parameters argument i reads
KahnOrder(k, nodes, deps, hashOrder) ==
  LET inNodes(j) == InSeq(j, nodes)
      graph == [i \in 1..k |->
                  IF inNodes(i)
                    THEN InOrderOf({j \in deps[i] : j # i /\ inNodes(j)}, hashOrder)
                    ELSE <<>>]
      indeg == [j \in 1..k |->
                  Cardinality({i \in 1..k : inNodes(i) /\ j # i /\ j \in deps[i] /\ inNodes(j)})]
      q0 == SelectSeq(nodes, LAMBDA i : indeg[i] = 0)
  IN KahnLoop(graph, indeg, q0, <<>>)

\* TailCallRewrite without the order.size() != nodes.size() test
TailCallRewrite_NoCycleCheck(ret, params, hashOrder) ==
  LET call == ret.ch[1]
      k == Len(params)
      rhsClones == [i \in 1..k |-> Tail_clone(call.ch[i])]
      deps == [i \in 1..k |->
                 IF rhsClones[i] # Null THEN CollectParamDeps(rhsClones[i], params) ELSE {}]
      isIdentity(i) == rhsClones[i].kind = "Var" /\ rhsClones[i].val = params[i]
      nodes == SelectSeq([i \in 1..k |-> i], LAMBDA i : ~isIdentity(i))
      ord == KahnOrder(k, nodes, deps, hashOrder)
  IN TxRes(Block([idx \in 1..Len(ord) |->
                    Math2("=", Var(params[ord[idx]]), Tail_clone(rhsClones[ord[idx]]))]
                 \o <<Continue>>),
           TRUE,
           \E idx \in 1..Len(ord) : rhsClones[ord[idx]] = Null)

\* the rewrite of return f(a1..ak): lines 144-200
TailCallRewrite(ret, params, hashOrder) ==
  LET call == ret.ch[1]
      k == Len(params)
      rhsClones == [i \in 1..k |-> Tail_clone(call.ch[i])]
      deps == [i \in 1..k |->
                 IF rhsClones[i] # Null THEN CollectParamDeps(rhsClones[i], params) ELSE {}]
      isIdentity(i) == rhsClones[i].kind = "Var" /\ rhsClones[i].val = params[i]
      nodes == SelectSeq([i \in 1..k |-> i], LAMBDA i : ~isIdentity(i))
      ord == KahnOrder(k, nodes, deps, hashOrder)
  IN IF Len(ord) # Len(nodes)
       THEN TxRes(Tail_clone(ret), FALSE, FALSE)
       ELSE TxRes(Block([idx \in 1..Len(ord) |->
                           Math2("=", Var(params[ord[idx]]), Tail_clone(rhsClones[ord[idx]]))]
                        \o <<Continue>>),
                  TRUE,
                  \* Cloner::clone(*rhsClones[i]) on an empty pointer
                  \E idx \in 1..Len(ord) : rhsClones[ord[idx]] = Null)

IsSelfTailReturn(n, selfId, params) ==
  /\ n.kind = "Return" /\ NumChildren(n) >= 1
  /\ n.ch[1].kind = "FunctionCall"
  /\ n.ch[1].val = selfId
  /\ NumChildren(n.ch[1]) = Len(params)

RECURSIVE transformNode(_, _, _, _)

transformNodeAsBlock(n, selfId, params, hashOrder) ==
  IF n.kind = "Block" THEN transformNode(n, selfId, params, hashOrder)
  ELSE LET t == transformNode(n, selfId, params, hashOrder)
       IN TxRes(Block(DropNull(<<t.node>>)), t.changed, t.ub)

\* transformNode going into the body of a While as it goes into a Block
transformNode_IntoWhile(n, selfId, params, hashOrder) ==
  IF n.kind = "While" /\ NumChildren(n) = 2 THEN
    LET test == Tail_clone(n.ch[1])
        loopB == transformNodeAsBlock(n.ch[2], selfId, params, hashOrder)
    IN IF test # Null
         THEN TxRes(While(test, loopB.node), loopB.changed, loopB.ub)
         ELSE TxRes(Null, loopB.changed, loopB.ub)
  ELSE
  IF n.kind = "Return" THEN
    IF IsSelfTailReturn(n, selfId, params)
      THEN TailCallRewrite(n, params, hashOrder)
      ELSE TxRes(Tail_clone(n), FALSE, FALSE)
  ELSE IF n.kind = "If" THEN
    LET test == Tail_clone(n.ch[1]) IN
    IF NumChildren(n) = 2 THEN
      LET thenB == transformNodeAsBlock(n.ch[2], selfId, params, hashOrder) IN
      IF test # Null
        THEN TxRes(If2(test, thenB.node), thenB.changed, thenB.ub)
        ELSE TxRes(Tail_clone(n), thenB.changed, thenB.ub)
    ELSE IF NumChildren(n) = 3 THEN
      LET thenB == transformNodeAsBlock(n.ch[2], selfId, params, hashOrder)
          elseB == transformNodeAsBlock(n.ch[3], selfId, params, hashOrder)
      IN IF test # Null
           THEN TxRes(If3(test, thenB.node, elseB.node),
                      thenB.changed \/ elseB.changed, thenB.ub \/ elseB.ub)
           ELSE TxRes(Tail_clone(n), thenB.changed \/ elseB.changed, thenB.ub \/ elseB.ub)
    ELSE TxRes(Tail_clone(n), FALSE, FALSE)
  ELSE IF n.kind = "Block" THEN
    LET kids == [i \in 1..NumChildren(n) |-> transformNode(n.ch[i], selfId, params, hashOrder)]
    IN TxRes(Block(DropNull([i \in 1..NumChildren(n) |-> kids[i].node])),
             \E i \in 1..NumChildren(n) : kids[i].changed,
             \E i \in 1..NumChildren(n) : kids[i].ub)
  ELSE TxRes(Tail_clone(n), FALSE, FALSE)

\* transformNode counting a return it only clones as a rewrite
transformNode_EveryReturnChanges(n, selfId, params, hashOrder) ==
  IF n.kind = "Return" THEN
    IF IsSelfTailReturn(n, selfId, params)
      THEN TailCallRewrite(n, params, hashOrder)
      ELSE TxRes(Tail_clone(n), TRUE, FALSE)
  ELSE IF n.kind = "If" THEN
    LET test == Tail_clone(n.ch[1]) IN
    IF NumChildren(n) = 2 THEN
      LET thenB == transformNodeAsBlock(n.ch[2], selfId, params, hashOrder) IN
      IF test # Null
        THEN TxRes(If2(test, thenB.node), thenB.changed, thenB.ub)
        ELSE TxRes(Tail_clone(n), thenB.changed, thenB.ub)
    ELSE IF NumChildren(n) = 3 THEN
      LET thenB == transformNodeAsBlock(n.ch[2], selfId, params, hashOrder)
          elseB == transformNodeAsBlock(n.ch[3], selfId, params, hashOrder)
      IN IF test # Null
           THEN TxRes(If3(test, thenB.node, elseB.node),
                      thenB.changed \/ elseB.changed, thenB.ub \/ elseB.ub)
           ELSE TxRes(Tail_clone(n), thenB.changed \/ elseB.changed, thenB.ub \/ elseB.ub)
    ELSE TxRes(Tail_clone(n), FALSE, FALSE)
  ELSE IF n.kind = "Block" THEN
    LET kids == [i \in 1..NumChildren(n) |-> transformNode(n.ch[i], selfId, params, hashOrder)]
    IN TxRes(Block(DropNull([i \in 1..NumChildren(n) |-> kids[i].node])),
             \E i \in 1..NumChildren(n) : kids[i].changed,
             \E i \in 1..NumChildren(n) : kids[i].ub)
  ELSE TxRes(Tail_clone(n), FALSE, FALSE)

transformNode(n, selfId, params, hashOrder) ==
  IF n.kind = "Return" THEN
    IF IsSelfTailReturn(n, selfId, params)
      THEN TailCallRewrite(n, params, hashOrder)
      ELSE TxRes(Tail_clone(n), FALSE, FALSE)
  ELSE IF n.kind = "If" THEN
    LET test == Tail_clone(n.ch[1]) IN
    IF NumChildren(n) = 2 THEN
      LET thenB == transformNodeAsBlock(n.ch[2], selfId, params, hashOrder) IN
      IF test # Null
        THEN TxRes(If2(test, thenB.node), thenB.changed, thenB.ub)
        ELSE TxRes(Tail_clone(n), thenB.changed, thenB.ub)
    ELSE IF NumChildren(n) = 3 THEN
      LET thenB == transformNodeAsBlock(n.ch[2], selfId, params, hashOrder)
          elseB == transformNodeAsBlock(n.ch[3], selfId, params, hashOrder)
      IN IF test # Null
           THEN TxRes(If3(test, thenB.node, elseB.node),
                      thenB.changed \/ elseB.changed, thenB.ub \/ elseB.ub)
           ELSE TxRes(Tail_clone(n), thenB.changed \/ elseB.changed, thenB.ub \/ elseB.ub)
    ELSE TxRes(Tail_clone(n), FALSE, FALSE)
  ELSE IF n.kind = "Block" THEN
    LET kids == [i \in 1..NumChildren(n) |-> transformNode(n.ch[i], selfId, params, hashOrder)]
    IN TxRes(Block(DropNull([i \in 1..NumChildren(n) |-> kids[i].node])),
             \E i \in 1..NumChildren(n) : kids[i].changed,
             \E i \in 1..NumChildren(n) : kids[i].ub)
  ELSE TxRes(Tail_clone(n), FALSE, FALSE)

\* transformForTailCalls returning the new block whether or not a return
\* was rewritten
transformForTailCalls_AlwaysBlock(fn, body, hashOrder) ==
  IF body.kind = "Block" THEN
    LET kids == [i \in 1..NumChildren(body) |->
                   transformNode(body.ch[i], fn.val, fn.params, hashOrder)]
    IN TxRes(Block(DropNull([i \in 1..NumChildren(body) |-> kids[i].node])),
             TRUE, \E i \in 1..NumChildren(body) : kids[i].ub)
  ELSE TxRes(Null, FALSE, FALSE)

\* a transformed clone of the body, Null when nothing was rewritten
transformForTailCalls(fn, body, hashOrder) ==
  IF body.kind = "Block" THEN
    LET kids == [i \in 1..NumChildren(body) |->
                   transformNode(body.ch[i], fn.val, fn.params, hashOrder)]
    IN IF \E i \in 1..NumChildren(body) : kids[i].changed
         THEN TxRes(Block(DropNull([i \in 1..NumChildren(body) |-> kids[i].node])),
                    TRUE, \E i \in 1..NumChildren(body) : kids[i].ub)
         ELSE TxRes(Null, FALSE, FALSE)
  ELSE TxRes(Null, FALSE, FALSE)

\* [node, changed, ub]: the function after the pass
optimizeFunction(fn, hashOrder) ==
  IF NumChildren(fn) = 0 THEN TxRes(fn, FALSE, FALSE)
  ELSE LET t == transformForTailCalls(fn, fn.ch[1], hashOrder) IN
       IF t.node = Null THEN TxRes(fn, FALSE, FALSE)
       ELSE TxRes(ReplaceChild(fn, 1,
                    Block(<<While(IntLit(1), t.node), Return(IntLit(0))>>)),
                  TRUE, t.ub)

\* Tail_run without the test of loopifyTailRecursion
Tail_run_IgnoringSwitch(node, loopifyTailRecursion, hashOrder) ==
  IF node.kind = "Function" THEN optimizeFunction(node, hashOrder)
  ELSE TxRes(node, FALSE, FALSE)

\* TailRecursionPass::run
Tail_run(node, loopifyTailRecursion, hashOrder) ==
  IF ~loopifyTailRecursion THEN TxRes(node, FALSE, FALSE)
  ELSE IF node.kind = "Function" THEN optimizeFunction(node, hashOrder)
  ELSE TxRes(node, FALSE, FALSE)

-----------------------------------------------------------------------------
(* FunctionInliningPass.  P is the list of the program's functions as they  *)
(* are now (functionMap holds pointers to them), fm the function ids        *)
(* collected so far.                                                        *)

maxInlineDepth == 3
maxInlineNodes == 40

\* what stands where the code dereferences an empty unique_ptr: the
\* behaviour from there on is undefined
DerefNull == Node("DerefNull", "", 0, <<>>)

\* NodeCounter: every node counts one
RECURSIVE NodeCount(_)
NodeCount(n) ==
  IF NumChildren(n) = 0 THEN 1
  ELSE LET RECURSIVE Sum(_)
           Sum(i) == IF i = 0 THEN 0 ELSE NodeCount(n.ch[i]) + Sum(i - 1)
       IN 1 + Sum(NumChildren(n))

RECURSIVE hasSideEffects(_)
hasSideEffects(node) ==
  \/ node.kind \in {"While", "Break", "Continue", "FunctionCall"}
  \/ node.kind = "Math2" /\ node.op = "="
  \/ \E i \in 1..NumChildren(node) : node.ch[i] # Null /\ hasSideEffects(node.ch[i])

RECURSIVE countVarUsage(_, _)
countVarUsage(node, varId) ==
  LET RECURSIVE Sum(_)
      Sum(i) == IF i = 0 THEN 0
                ELSE (IF node.ch[i] # Null THEN countVarUsage(node.ch[i], varId) ELSE 0)
                     + Sum(i - 1)
  IN (IF node.kind = "Var" /\ node.val = varId THEN 1 ELSE 0) + Sum(NumChildren(node))

NoParams == [v \in {} |-> Null]

\* paramMap is a function from parameter ids to (cloned) argument nodes
RECURSIVE cloneWithSubstitution(_, _)
cloneWithSubstitution(node, paramMap) ==
  \* GetChild(i) of a child that is an empty pointer is a dereference of it
  LET kid(i) == IF node.ch[i] = Null THEN DerefNull
                ELSE cloneWithSubstitution(node.ch[i], paramMap) IN
  CASE node.kind = "Var" ->
         IF node.val \in DOMAIN paramMap
           THEN (IF paramMap[node.val] = Null THEN DerefNull
                 ELSE cloneWithSubstitution(paramMap[node.val], NoParams))
           ELSE Var(node.val)
    [] node.kind = "Math2" ->
         IF NumChildren(node) >= 2 /\ kid(1) # Null /\ kid(2) # Null
           THEN Math2(node.op, kid(1), kid(2)) ELSE Null
    [] node.kind = "Math1" ->
         IF NumChildren(node) = 1 THEN Math1(node.op, kid(1)) ELSE Null
    [] node.kind = "FunctionCall" ->
         Call(node.val, [i \in 1..NumChildren(node) |-> kid(i)])
    [] node.kind \in {"IntLit", "FloatLit", "StringLit"} -> node
    [] node.kind = "Return" ->
         IF NumChildren(node) >= 1 /\ kid(1) # Null THEN Return(kid(1))
         ELSE Return(IntLit(0))
    [] node.kind = "Block" ->
         Block(DropNull([i \in 1..NumChildren(node) |->
                           IF node.ch[i] # Null THEN kid(i) ELSE Null]))
    [] node.kind = "If" ->
         IF NumChildren(node) >= 2 /\ kid(1) # Null /\ kid(2) # Null
           THEN (IF NumChildren(node) >= 3
                   THEN (IF kid(3) # Null THEN If3(kid(1), kid(2), kid(3)) ELSE Null)
                   ELSE If2(kid(1), kid(2)))
           ELSE Null
    [] node.kind = "While" ->
         IF NumChildren(node) >= 2 /\ kid(1) # Null /\ kid(2) # Null
           THEN While(kid(1), kid(2)) ELSE Null
    [] node.kind \in {"ToDouble", "ToInt", "ToString", "Size"} ->
         Node(node.kind, "", 0, <<kid(1)>>)
    [] node.kind = "Indexing" -> Node("Indexing", "", 0, <<kid(1), kid(2)>>)
    [] node.kind = "DerefNull" -> DerefNull
    [] OTHER -> Null

\* the expression of the single return of a function body, Null if the
\* body has no such shape: lines 326-336 and 383-402
ReturnExpression(function) ==
  LET body == function.ch[1]
      ret == IF body.kind = "Block"
               THEN (IF NumChildren(body) = 1 /\ body.ch[1].kind = "Return"
                       THEN body.ch[1] ELSE Null)
               ELSE (IF body.kind = "Return" THEN body ELSE Null)
  IN IF ret # Null /\ NumChildren(ret) = 1 THEN ret.ch[1] ELSE Null

shouldInlineFunction(P, fm, funcCall) ==
  /\ funcCall.val \in fm
  /\ LET function == FindFunction(P, funcCall.val)
         paramIds == function.params
         expr == ReturnExpression(function)
     IN /\ NumChildren(funcCall) = Len(paramIds)
        /\ expr # Null
        /\ NodeCount(expr) <= maxInlineNodes
        /\ ~hasSideEffects(expr)
        /\ \A i \in 1..Len(paramIds) :
             countVarUsage(expr, paramIds[i]) <= 1
             \/ (~hasSideEffects(funcCall.ch[i]) /\ NodeCount(funcCall.ch[i]) <= 3)
        \* currentDepth is 0 whenever shouldInlineFunction is called
        /\ 0 < maxInlineDepth

createParameterMap(funcCall, function) ==
  [v \in {function.params[i] : i \in 1..NumChildren(funcCall)} |->
     LET i == CHOOSE i \in 1..NumChildren(funcCall) :
                /\ function.params[i] = v
                /\ \A j \in (i + 1)..NumChildren(funcCall) : function.params[j] # v
     IN IF funcCall.ch[i] = Null THEN Null
        ELSE cloneWithSubstitution(funcCall.ch[i], NoParams)]

createInlinedExpression(P, funcCall) ==
  LET function == FindFunction(P, funcCall.val) IN
  IF function = Null \/ NumChildren(function) = 0 THEN Null
  ELSE LET expr == ReturnExpression(function) IN
       IF expr = Null THEN Null
       ELSE cloneWithSubstitution(expr, createParameterMap(funcCall, function))

\* the node that replaces a call in a position the pass looks at
InlinedOrKept(P, fm, funcCall) ==
  IF shouldInlineFunction(P, fm, funcCall)
    THEN (IF createInlinedExpression(P, funcCall) # Null
            THEN createInlinedExpression(P, funcCall) ELSE funcCall)
    ELSE funcCall

RECURSIVE inlineFunctionCalls(_, _, _)
inlineFunctionCalls(P, fm, node) ==
  LET down(n) == [n EXCEPT !.ch = [i \in 1..NumChildren(n) |->
                                     IF n.ch[i] # Null
                                       THEN inlineFunctionCalls(P, fm, n.ch[i])
                                       ELSE Null]]
  IN
  CASE node.kind = "Math2" ->
         \* inlineMath2FunctionCalls
         IF node.op = "=" /\ NumChildren(node) >= 2 /\ node.ch[2].kind = "FunctionCall"
           THEN down(ReplaceChild(node, 2, InlinedOrKept(P, fm, node.ch[2])))
           ELSE down(node)
    [] node.kind = "Return" ->
         \* inlineReturnFunctionCalls
         IF NumChildren(node) >= 1
           THEN (IF node.ch[1].kind = "FunctionCall"
                   THEN ReplaceChild(node, 1, InlinedOrKept(P, fm, node.ch[1]))
                   ELSE down(node))
           ELSE node
    [] OTHER -> down(node)

\* FunctionInliningPass::run on function number idx of the program
Inline_run(P, fm, idx, inlineEnabled) ==
  IF ~inlineEnabled THEN [node |-> P[idx], fm |-> fm]
  ELSE LET known == fm \cup {P[idx].val} IN
       [node |-> inlineFunctionCalls(P, known, P[idx]), fm |-> known]

-----------------------------------------------------------------------------
(* Execution of an AST: the meaning the emitted WAT gives to each node.    *)
(* Integers are 32-bit two's complement (i32).  An environment holds the    *)
(* locals of one call (m) and the assignments performed so far (tr).        *)

MaxInt == 2147483647
MinInt == -MaxInt - 1

\* i32.add, i32.sub: the sum or difference modulo 2^32, computed without
\* leaving the 32-bit range
AddWrap(a, b) ==
  IF a > 0 /\ b > 0 /\ a > MaxInt - b THEN (a + MinInt) + (b + MinInt)
  ELSE IF a < 0 /\ b < 0 /\ a < MinInt - b THEN (a - MinInt) + (b - MinInt)
  ELSE a + b

NegWrap(a) == IF a = MinInt THEN MinInt ELSE -a

SubWrap(a, b) ==
  IF b = MinInt THEN AddWrap(AddWrap(a, MaxInt), 1) ELSE AddWrap(a, -b)

Abs(x) == IF x < 0 THEN -x ELSE x

\* x * p modulo 2^32 for p a power of two, 2 <= p <= 2^24
ShlWrap(x, p) ==
  LET half == (MaxInt \div p) + 1
      low == x % (2 * half)
  IN IF low >= half THEN (low - 2 * half) * p ELSE low * p

\* a * d modulo 2^32 for a byte d in 0..255
MulByte(a, d) == AddWrap(ShlWrap((a \div 65536) * d, 65536), (a % 65536) * d)

\* i32.mul: the product modulo 2^32, summed over the four bytes of b
MulWrap(a, b) ==
  AddWrap(AddWrap(MulByte(a, b % 256),
                  ShlWrap(MulByte(a, (b \div 256) % 256), 256)),
          AddWrap(ShlWrap(MulByte(a, (b \div 65536) % 256), 65536),
                  ShlWrap(MulByte(a, (b \div 16777216) % 256), 16777216)))

MaxVarId == 4
VarIds == 0..MaxVarId

Env(m) == [m |-> m, tr |-> <<>>]
ZeroLocals == [v \in VarIds |-> 0]

Write(env, v, x) == [m |-> [env.m EXCEPT ![v] = x], tr |-> Append(env.tr, <<v, x>>)]

Res(st, v, env) == [st |-> st, v |-> v, env |-> env]

BoolInt(b) == IF b THEN 1 ELSE 0

\* truncating division and remainder of i32.div_s / i32.rem_s (operands
\* other than MinInt; b # 0)
DivT(a, b) == LET q == Abs(a) \div Abs(b) IN IF (a < 0) # (b < 0) THEN -q ELSE q
RemT(a, b) == a - b * DivT(a, b)

Arith(op, a, b) ==
  CASE op = "+"  -> AddWrap(a, b)
    [] op = "-"  -> SubWrap(a, b)
    [] op = "*"  -> MulWrap(a, b)
    [] op = "/"  -> DivT(a, b)
    [] op = "%"  -> RemT(a, b)
    [] op = "<"  -> BoolInt(a < b)
    [] op = "<=" -> BoolInt(a <= b)
    [] op = ">"  -> BoolInt(a > b)
    [] op = ">=" -> BoolInt(a >= b)
    [] op = "==" -> BoolInt(a = b)
    [] op = "!=" -> BoolInt(a # b)
    [] OTHER -> 0

RECURSIVE Exec(_, _, _, _), ExecSeq(_, _, _, _, _), ExecWhile(_, _, _, _, _),
          EvalArgs(_, _, _, _, _, _)

\* what bounds an execution: Fuel nested calls, LoopFuel tests of the
\* condition of one loop
Fuel == 2
LoopFuel == 6

\* statuses: "norm", "ret", "brk", "cont", "trap" (invalid or trapping
\* code), "oof" (the execution went beyond Fuel or LoopFuel)
Exec(P, n, env, fuel) ==
  CASE n.kind \in {"IntLit", "CharLit"} -> Res("norm", n.val, env)
    [] n.kind = "Var" -> Res("norm", env.m[n.val], env)
    [] n.kind = "ToInt" -> Exec(P, n.ch[1], env, fuel)
    [] n.kind = "Math1" ->
         LET a == Exec(P, n.ch[1], env, fuel) IN
         IF a.st # "norm" THEN a
         ELSE IF n.op = "-" THEN Res("norm", NegWrap(a.v), a.env)
         ELSE IF n.op = "!" THEN Res("norm", BoolInt(a.v = 0), a.env)
         ELSE Res("trap", 0, a.env)
    [] n.kind = "Math2" ->
         IF NumChildren(n) # 2 \/ n.ch[1] = Null \/ n.ch[2] = Null THEN Res("trap", 0, env)
         ELSE IF n.op = "=" THEN
           IF n.ch[1].kind # "Var" THEN Res("trap", 0, env)
           ELSE LET r == Exec(P, n.ch[2], env, fuel) IN
                IF r.st # "norm" THEN r
                ELSE Res("norm", r.v, Write(r.env, n.ch[1].val, r.v))
         ELSE
           LET l == Exec(P, n.ch[1], env, fuel) IN
           IF l.st # "norm" THEN l
           ELSE IF n.op = "&&" /\ l.v = 0 THEN Res("norm", 0, l.env)
           ELSE IF n.op = "||" /\ l.v # 0 THEN Res("norm", 1, l.env)
           ELSE
             LET r == Exec(P, n.ch[2], l.env, fuel) IN
             IF r.st # "norm" THEN r
             ELSE IF n.op \in {"&&", "||"} THEN Res("norm", BoolInt(r.v # 0), r.env)
             ELSE IF n.op \in {"/", "%"} /\ (r.v = 0 \/ l.v = MinInt \/ r.v = MinInt)
               THEN Res("trap", 0, r.env)
             ELSE Res("norm", Arith(n.op, l.v, r.v), r.env)
    [] n.kind = "FunctionCall" ->
         LET f == FindFunction(P, n.val) IN
         IF f = Null THEN Res("trap", 0, env)
         ELSE IF NumChildren(n) # Len(f.params) THEN Res("trap", 0, env)
         ELSE IF fuel = 0 THEN Res("oof", 0, env)
         ELSE
           LET a == EvalArgs(P, n.ch, 1, env, fuel, <<>>) IN
           IF a.st # "norm" THEN Res(a.st, 0, a.env)
           ELSE
             LET locals == [v \in VarIds |->
                              IF \E i \in 1..Len(f.params) : f.params[i] = v
                                THEN a.v[CHOOSE i \in 1..Len(f.params) : f.params[i] = v]
                                ELSE 0]
                 r == Exec(P, f.ch[1], Env(locals), fuel - 1)
             IN IF r.st = "ret" THEN Res("norm", r.v, a.env)
                ELSE IF r.st = "oof" THEN Res("oof", 0, a.env)
                ELSE Res("trap", 0, a.env)
    [] n.kind = "If" ->
         LET c == Exec(P, n.ch[1], env, fuel) IN
         IF c.st # "norm" THEN c
         ELSE IF c.v # 0 THEN Exec(P, n.ch[2], c.env, fuel)
         ELSE IF NumChildren(n) >= 3 THEN Exec(P, n.ch[3], c.env, fuel)
         ELSE Res("norm", 0, c.env)
    [] n.kind = "While" -> ExecWhile(P, n, env, fuel, LoopFuel)
    [] n.kind = "Return" ->
         LET e == Exec(P, n.ch[1], env, fuel) IN
         IF e.st # "norm" THEN e ELSE Res("ret", e.v, e.env)
    [] n.kind = "Block" -> ExecSeq(P, n.ch, 1, env, fuel)
    [] n.kind = "Break" -> Res("brk", 0, env)
    [] n.kind = "Continue" -> Res("cont", 0, env)
    [] OTHER -> Res("trap", 0, env)

ExecSeq(P, stmts, i, env, fuel) ==
  IF i > Len(stmts) THEN Res("norm", 0, env)
  ELSE LET r == Exec(P, stmts[i], env, fuel) IN
       IF r.st # "norm" THEN r ELSE ExecSeq(P, stmts, i + 1, r.env, fuel)

ExecWhile(P, n, env, fuel, iters) ==
  IF iters = 0 THEN Res("oof", 0, env)
  ELSE LET c == Exec(P, n.ch[1], env, fuel) IN
       IF c.st # "norm" THEN c
       ELSE IF c.v = 0 THEN Res("norm", 0, c.env)
       ELSE LET b == Exec(P, n.ch[2], c.env, fuel) IN
            IF b.st \in {"norm", "cont"} THEN ExecWhile(P, n, b.env, fuel, iters - 1)
            ELSE IF b.st = "brk" THEN Res("norm", 0, b.env)
            ELSE b

EvalArgs(P, args, i, env, fuel, acc) ==
  IF i > Len(args) THEN Res("norm", acc, env)
  ELSE IF args[i] = Null THEN Res("trap", acc, env)
  ELSE LET r == Exec(P, args[i], env, fuel) IN
       IF r.st # "norm" THEN Res(r.st, acc, r.env)
       ELSE EvalArgs(P, args, i + 1, r.env, fuel, Append(acc, r.v))

\* the result of calling function f of program P on the argument values
CallFunction(P, f, vals, fuel) ==
  LET fn == FindFunction(P, f)
      locals == [v \in VarIds |->
                   IF \E i \in 1..Len(fn.params) : fn.params[i] = v
                     THEN vals[CHOOSE i \in 1..Len(fn.params) : fn.params[i] = v]
                     ELSE 0]
      r == Exec(P, fn.ch[1], Env(locals), fuel)
  IN IF r.st = "ret" THEN [st |-> "ret", v |-> r.v]
     ELSE IF r.st = "oof" THEN [st |-> "oof", v |-> 0]
     ELSE [st |-> "trap", v |-> 0]

-----------------------------------------------------------------------------
(* Specification SpecUnroll: the unrolling pass applied to a Block holding *)
(* one While, then the original loop and its replacement executed one       *)
(* iteration per step from the same variable state.                         *)

NoResult == [orig |-> [st |-> "none", v |-> 0], opt |-> [st |-> "none", v |-> 0]]

TailIdle ==
  /\ tOriginal = Null /\ tFn = Null /\ tPc = "idle" /\ tUb = FALSE
  /\ tResult = NoResult /\ tType = "int" /\ tFirst = Null

InlineIdle ==
  /\ iOriginal = <<>> /\ iProg = <<>> /\ iFm = {} /\ iNext = 0 /\ iPc = "idle"
  /\ iResult = NoResult

CloneIdle == cHeap = <<>> /\ cRoot = 0 /\ cCopy = 0 /\ cFormat = "" /\ cPc = "idle"

WalkIdle ==
  /\ bOriginal = Null /\ bTree = Null /\ bFactor = 0
  /\ bStack = <<>> /\ bLog = <<>> /\ bPc = "idle"

NoOptions ==
  [filename |-> "", enableLoopUnrolling |-> TRUE, unrollFactor |-> 4,
   enableFunctionInlining |-> TRUE, enableTailLoopify |-> TRUE,
   passOrder |-> <<"Inline", "Unroll", "Tail">>,
   seenNoUnroll |-> FALSE, seenUnrollFactor |-> FALSE, seenTail |-> FALSE]

MainIdle ==
  /\ argv = <<>> /\ source = <<>> /\ pc = "idle" /\ argi = 0 /\ opt = NoOptions
  /\ exitCode = -1 /\ functions = <<>> /\ passes = <<>> /\ cur = [fn |-> 0, pass |-> 0]
  /\ functionMap = {} /\ runLog = <<>>

MaxBound == 4
MaxFactor == 3
MaxIters == MaxBound + 3

LoopVar == 1
AccVar == 2
AuxVar == 3

LoopOps == {"<", "<=", ">", ">=", "!=", "=="}
LoopSteps == {1, -1, 2}
BodyShapes == {"last", "first", "middle", "only"}

IncrementStmt(step) ==
  IF step >= 0 THEN Assign(LoopVar, Math2("+", Var(LoopVar), IntLit(step)))
               ELSE Assign(LoopVar, Math2("-", Var(LoopVar), IntLit(-step)))

AccStmt == Assign(AccVar, Math2("+", Var(AccVar), Var(LoopVar)))
AuxStmt == Assign(AuxVar, Math2("+", Math2("*", Var(AuxVar), IntLit(2)), Var(LoopVar)))

LoopBody(shape, step) ==
  CASE shape = "last"   -> Block(<<AccStmt, IncrementStmt(step)>>)
    [] shape = "first"  -> Block(<<IncrementStmt(step), AccStmt>>)
    [] shape = "middle" -> Block(<<AccStmt, IncrementStmt(step), AuxStmt>>)
    [] shape = "only"   -> Block(<<IncrementStmt(step)>>)

OrderIdle == spec = "" /\ ss = "" /\ order = <<>> /\ poState = "idle"

UnrollIdle ==
  /\ unrollFactor = 0 /\ uOriginal = Null /\ uBlock = Null /\ uPc = "idle"
  /\ uStart = ZeroLocals
  /\ uEnvO = Env(ZeroLocals) /\ uEnvT = Env(ZeroLocals)
  /\ uIters = [orig |-> 0, main |-> 0, rem |-> 0]

InitUnroll ==
  /\ OrderIdle /\ TailIdle /\ InlineIdle /\ MainIdle /\ CloneIdle /\ WalkIdle
  /\ unrollFactor \in 2..MaxFactor
  /\ \E op \in LoopOps, n \in 0..MaxBound, step \in LoopSteps, shape \in BodyShapes :
       uOriginal = While(Math2(op, Var(LoopVar), IntLit(n)), LoopBody(shape, step))
  /\ uBlock = Block(<<uOriginal>>)
  /\ uPc = "pass"
  /\ \E v0 \in 0..MaxBound : uStart = [ZeroLocals EXCEPT ![LoopVar] = v0]
  /\ uEnvO = Env(uStart)
  /\ uEnvT = Env(uStart)
  /\ uIters = [orig |-> 0, main |-> 0, rem |-> 0]

\* the loop was replaced by Block { main loop; remainder loop }
Rewritten(b) ==
  /\ b.kind = "Block" /\ NumChildren(b) = 1
  /\ b.ch[1].kind = "Block" /\ NumChildren(b.ch[1]) = 2
  /\ b.ch[1].ch[1].kind = "While" /\ b.ch[1].ch[2].kind = "While"

MainLoop == uBlock.ch[1].ch[1]
RemainderLoop == uBlock.ch[1].ch[2]

\* LoopUnrollingPass::run on the block
UnrollPass ==
  /\ uPc = "pass"
  /\ uBlock' = Unroll_run(uBlock, unrollFactor)
  /\ uPc' = IF Rewritten(uBlock') THEN "orig" ELSE "kept"
  /\ UNCHANGED <<unrollFactor, uOriginal, uStart, uEnvO, uEnvT, uIters>>
  /\ UNCHANGED <<orderVars, tailVars, inlineVars, mainVars, cloneVars, walkVars>>

\* one evaluation of a loop's test and, when it holds, one run of its body:
\* [exit, trap, env]; trap: the execution has stopped in invalid code
LoopIteration(loop, env) ==
  LET c == Exec(<<>>, loop.ch[1], env, 0) IN
  IF c.st # "norm" \/ c.v = 0
    THEN [exit |-> TRUE, trap |-> c.st # "norm", env |-> c.env]
  ELSE LET b == Exec(<<>>, loop.ch[2], c.env, 0) IN
       [exit |-> b.st # "norm", trap |-> b.st # "norm", env |-> b.env]

StepOriginal ==
  /\ uPc = "orig"
  /\ LET r == LoopIteration(uOriginal, uEnvO) IN
     /\ uEnvO' = r.env
     /\ IF r.trap THEN uPc' = "trapped" /\ uIters' = uIters
        ELSE IF r.exit THEN uPc' = "main" /\ uIters' = uIters
        ELSE /\ uIters' = [uIters EXCEPT !.orig = @ + 1]
             /\ uPc' = IF uIters.orig + 1 >= MaxIters THEN "capped" ELSE "orig"
  /\ UNCHANGED <<unrollFactor, uOriginal, uBlock, uStart, uEnvT>>
  /\ UNCHANGED <<orderVars, tailVars, inlineVars, mainVars, cloneVars, walkVars>>

StepMain ==
  /\ uPc = "main"
  /\ LET r == LoopIteration(MainLoop, uEnvT) IN
     /\ uEnvT' = r.env
     /\ IF r.trap THEN uPc' = "trapped" /\ uIters' = uIters
        ELSE IF r.exit THEN uPc' = "rem" /\ uIters' = uIters
        ELSE /\ uIters' = [uIters EXCEPT !.main = @ + 1]
             /\ uPc' = IF uIters.main + 1 >= MaxIters THEN "capped" ELSE "main"
  /\ UNCHANGED <<unrollFactor, uOriginal, uBlock, uStart, uEnvO>>
  /\ UNCHANGED <<orderVars, tailVars, inlineVars, mainVars, cloneVars, walkVars>>

StepRemainder ==
  /\ uPc = "rem"
  /\ LET r == LoopIteration(RemainderLoop, uEnvT) IN
     /\ uEnvT' = r.env
     /\ IF r.trap THEN uPc' = "trapped" /\ uIters' = uIters
        ELSE IF r.exit THEN uPc' = "done" /\ uIters' = uIters
        ELSE /\ uIters' = [uIters EXCEPT !.rem = @ + 1]
             /\ uPc' = IF uIters.rem + 1 >= MaxIters THEN "capped" ELSE "rem"
  /\ UNCHANGED <<unrollFactor, uOriginal, uBlock, uStart, uEnvO>>
  /\ UNCHANGED <<orderVars, tailVars, inlineVars, mainVars, cloneVars, walkVars>>

NextUnroll == UnrollPass \/ StepOriginal \/ StepMain \/ StepRemainder

SpecUnroll == InitUnroll /\ [][NextUnroll]_vars

\* the assignments of a run to variables other than v, in order
RECURSIVE EffectsExcept(_, _)
EffectsExcept(tr, v) ==
  IF Len(tr) = 0 THEN <<>>
  ELSE IF Head(tr)[1] = v THEN EffectsExcept(Tail(tr), v)
  ELSE <<Head(tr)>> \o EffectsExcept(Tail(tr), v)

\* C2: for every While the pass rewrites, running the replacement (main
\* loop, then remainder loop) from any variable state ends with the same
\* value of the induction variable and the same sequence of effects of the
\* other statements as running the original loop, wherever the induction
\* assignment stands in the body.
C2_UnrollPreservesLoop ==
  uPc = "done" =>
    /\ uEnvT.m[LoopVar] = uEnvO.m[LoopVar]
    /\ EffectsExcept(uEnvT.tr, LoopVar) = EffectsExcept(uEnvO.tr, LoopVar)

\* C3: a counted loop while (v < N), N >= 0 a literal, step +1, v = 0 at
\* entry, unrolled by factor k: the main loop runs floor(N/k) times and the
\* remainder loop N mod k times.
CountedFromZero ==
  /\ uOriginal.ch[1].op = "<"
  /\ uOriginal.ch[1].ch[2].val >= 0
  /\ analyzeLoop(uOriginal).increment = 1
  /\ uStart[LoopVar] = 0

C3_IterationCounts ==
  (uPc = "done" /\ CountedFromZero) =>
    /\ uIters.main = uOriginal.ch[1].ch[2].val \div unrollFactor
    /\ uIters.rem = uOriginal.ch[1].ch[2].val % unrollFactor

C3_Witness ==
  /\ uPc = "done" /\ CountedFromZero
  /\ uIters.main >= 1 /\ uIters.rem >= 1

-----------------------------------------------------------------------------
(* Specification SpecTail: the tail-call pass applied to one function       *)
(*   f(p1..pk) { if (p1 <= 0) return pk; [if (p1 == 1) return f(p1-1,..);] *)
(*               return f(a1..ak); }                                        *)
(* and then the parsed and the rewritten function called on the same        *)
(* arguments.                                                               *)

MaxParams == 3

SelfId == 7

HashOrders(k) ==
  {p \in [1..k -> 1..k] : \A i, j \in 1..k : p[i] = p[j] => i = j}

\* the expressions for argument i of the family: pi, its two neighbours
\* (cyclically), pi - 1, and p(i-1) * pi
Before(k, i) == IF i = 1 THEN k ELSE i - 1
After(k, i) == IF i = k THEN 1 ELSE i + 1

ArgExprs(k, i) ==
  {Var(i), Var(Before(k, i)), Var(After(k, i)),
   Math2("-", Var(i), IntLit(1)),
   Math2("*", Var(Before(k, i)), Var(i))}

ArgLists(k) ==
  {args \in [1..k -> UNION {ArgExprs(k, i) : i \in 1..k}] :
     \A i \in 1..k : args[i] \in ArgExprs(k, i)}

BaseCase(k) == If2(Math2("<=", Var(1), IntLit(0)), Return(Var(k)))

\* return f(p1 - 1, p2, .., pk): an acyclic self tail call
CountDown(k) ==
  If2(Math2("==", Var(1), IntLit(1)),
      Return(Call(SelfId, [i \in 1..k |->
                             IF i = 1 THEN Math2("-", Var(1), IntLit(1)) ELSE Var(i)])))

TailFunction(k, args, mixed) ==
  Function(SelfId, [i \in 1..k |-> i],
           Block(IF mixed
                   THEN <<BaseCase(k), CountDown(k), Return(Call(SelfId, args))>>
                   ELSE <<BaseCase(k), Return(Call(SelfId, args))>>))

InitTail ==
  /\ OrderIdle /\ UnrollIdle /\ InlineIdle /\ MainIdle /\ CloneIdle /\ WalkIdle
  /\ \E k \in 2..MaxParams : \E args \in ArgLists(k) : \E mixed \in BOOLEAN :
       tOriginal = TailFunction(k, args, mixed)
  /\ tFn = tOriginal
  /\ tPc = "pass"
  /\ tUb = FALSE
  /\ tResult = NoResult
  /\ tType = "int"
  /\ tFirst = Null

\* TailRecursionPass::run on the function; the iteration order of the
\* std::unordered_set of dependencies is not specified
TailPass ==
  /\ tPc = "pass"
  /\ \E hashOrder \in HashOrders(Len(tFn.params)) :
       LET r == Tail_run(tFn, TRUE, hashOrder) IN
       /\ tFn' = r.node
       /\ tUb' = r.ub
  /\ tPc' = "call"
  /\ UNCHANGED <<tOriginal, tResult, tType, tFirst>>
  /\ UNCHANGED <<orderVars, unrollVars, inlineVars, mainVars, cloneVars, walkVars>>

TestVectors(k) == {[i \in 1..k |-> 2], [i \in 1..k |-> i]}

\* the compiled function called with the same arguments before and after
TailCall ==
  /\ tPc = "call"
  /\ \E vals \in TestVectors(Len(tFn.params)) :
       tResult' = [orig |-> CallFunction(<<tOriginal>>, SelfId, vals, Fuel),
                   opt  |-> CallFunction(<<tFn>>, SelfId, vals, Fuel)]
  /\ tPc' = "done"
  /\ UNCHANGED <<tOriginal, tFn, tUb, tType, tFirst>>
  /\ UNCHANGED <<orderVars, unrollVars, inlineVars, mainVars, cloneVars, walkVars>>

NextTail == TailPass \/ TailCall

SpecTail == InitTail /\ [][NextTail]_vars

-----------------------------------------------------------------------------
(* Claims C4, C5                                                            *)

\* the variables an expression mentions
RECURSIVE VarsOf(_)
VarsOf(e) ==
  IF e.kind = "Var" THEN {e.val}
  ELSE UNION {VarsOf(e.ch[i]) : i \in 1..NumChildren(e)}

Last(seq) == seq[Len(seq)]

\* the arguments of the last statement, return f(a1..ak), of the parsed body
TailArgs == Last(tOriginal.ch[1].ch).ch[1].ch
Arity == Len(tOriginal.params)

NonIdentity == {i \in 1..Arity : TailArgs[i] # Var(tOriginal.params[i])}

\* argument i reads parameter j, both updated, i # j
Reads(i, j) ==
  /\ i \in NonIdentity /\ j \in NonIdentity /\ i # j
  /\ tOriginal.params[j] \in VarsOf(TailArgs[i])

\* i reaches j along Reads in at most n steps
RECURSIVE Reaches(_, _, _)
Reaches(i, j, n) ==
  /\ n > 0
  /\ \/ Reads(i, j)
     \/ \E m \in NonIdentity : Reads(i, m) /\ Reaches(m, j, n - 1)

Cyclic == \E i \in NonIdentity : Reaches(i, i, Arity)

Loopified(fn) ==
  /\ fn.ch[1].kind = "Block" /\ NumChildren(fn.ch[1]) = 2
  /\ fn.ch[1].ch[1].kind = "While"
  /\ fn.ch[1].ch[1].ch[1] = IntLit(1)

\* what the pass put in the place of the last statement of the body
LastRewritten == Last(tFn.ch[1].ch[1].ch[2].ch)

\* the parameter indices assigned by an emitted sequence, in order
AssignedParams(seq) ==
  [n \in 1..(NumChildren(seq) - 1) |->
     CHOOSE i \in 1..Arity : tOriginal.params[i] = seq.ch[n].ch[1].val]

PositionIn(seq, x) == CHOOSE n \in 1..Len(seq) : seq[n] = x

\* the values of the arguments in a variable state
ArgValue(i, m) == Exec(<<>>, TailArgs[i], Env(m), 0).v

TestStates == {[v \in VarIds |-> v + 2], [v \in VarIds |-> 5 - v]}

\* C4: the sequence emitted for return f(a1..ak) assigns every non-identity
\* parameter exactly once, ends in Continue, and puts p_i := r_i before
\* p_j := r_j whenever argument i reads parameter j, so that every parameter
\* ends up with the value its argument had at the call; for
\* fact_acc(n-1, n*a) the order is a := n*a, then n := n-1.
C4_DependencySafeOrder ==
  (tPc # "pass" /\ Loopified(tFn) /\ LastRewritten.kind = "Block") =>
    LET seq == LastRewritten
        ord == AssignedParams(seq)
    IN /\ Last(seq.ch) = Continue
       /\ Len(ord) = Cardinality(NonIdentity)
       /\ {ord[n] : n \in 1..Len(ord)} = NonIdentity
       /\ \A n \in 1..Len(ord) : seq.ch[n] = Math2("=", Var(tOriginal.params[ord[n]]), TailArgs[ord[n]])
       /\ \A i, j \in NonIdentity : Reads(i, j) => PositionIn(ord, i) < PositionIn(ord, j)
       /\ \A m \in TestStates :
            LET after == Exec(<<>>, seq, Env(m), 0).env.m IN
            \A i \in 1..Arity : after[tOriginal.params[i]] = ArgValue(i, m)
       /\ (TailArgs = <<Math2("-", Var(1), IntLit(1)), Math2("*", Var(1), Var(2))>>)
            => ord = <<2, 1>>

\* fact_acc(n-1, n*a) rewritten
C4_Witness ==
  /\ tPc # "pass" /\ Loopified(tFn) /\ LastRewritten.kind = "Block"
  /\ TailArgs = <<Math2("-", Var(1), IntLit(1)), Math2("*", Var(1), Var(2))>>
  /\ AssignedParams(LastRewritten) = <<2, 1>>

\* C5: when the dependency graph of the updates of return f(a1..ak) has a
\* cycle, that return is kept as it was, and a function whose only self tail
\* call is cyclic is left unchanged (no loop wrapper).
C5_CycleKeepsReturn ==
  (tPc # "pass" /\ Cyclic) =>
    /\ Loopified(tFn) => LastRewritten = Last(tOriginal.ch[1].ch)
    /\ NumChildren(tOriginal.ch[1]) = 2 => tFn = tOriginal

\* f(p2, p1) after the pass, and a cyclic return inside a function
\* that was loopified for another tail call
C5_Witness ==
  /\ tPc # "pass" /\ Cyclic
  /\ Loopified(tFn)
  /\ LastRewritten = Last(tOriginal.ch[1].ch)

C5_WitnessUnchanged ==
  /\ tPc # "pass" /\ Cyclic
  /\ TailArgs = <<Var(2), Var(1)>>
  /\ tFn = tOriginal

-----------------------------------------------------------------------------
(* Specification SpecInline: the inlining pass run on the functions of a    *)
(* program  one(); keep(a); callee; caller(x)  in declaration order, the    *)
(* caller holding one call of the callee in a chosen position, and then the *)
(* parsed and the rewritten caller called on the same argument.             *)

OneId == 5
KeepId == 6
CalleeId == 8
CallerId == 9
ParamVar == 1
ArgVar == 2
LocalVar == 3
KeepVar == 4
Literal == IntLit(5)

One == Function(OneId, <<>>, Block(<<Return(IntLit(1))>>))

\* not inlineable: two statements
Keep == Function(KeepId, <<KeepVar>>,
                 Block(<<Assign(KeepVar, Math2("+", Var(KeepVar), IntLit(0))),
                         Return(Var(KeepVar))>>))

CalleeShapes == {"literal", "char", "param", "increment", "square", "ignore", "negate", "two"}

Callee(shape) ==
  LET a == Var(ParamVar) IN
  CASE shape = "literal"   -> Function(CalleeId, <<>>, Block(<<Return(Literal)>>))
    [] shape = "char"      -> Function(CalleeId, <<>>, Block(<<Return(CharLit(99))>>))
    [] shape = "param"     -> Function(CalleeId, <<ParamVar>>, Block(<<Return(a)>>))
    [] shape = "increment" -> Function(CalleeId, <<ParamVar>>,
                                       Block(<<Return(Math2("+", a, IntLit(1)))>>))
    [] shape = "square"    -> Function(CalleeId, <<ParamVar>>,
                                       Block(<<Return(Math2("*", a, a))>>))
    [] shape = "ignore"    -> Function(CalleeId, <<ParamVar>>, Block(<<Return(IntLit(7))>>))
    [] shape = "negate"    -> Function(CalleeId, <<ParamVar>>, Block(<<Return(Math1("-", a))>>))
    [] shape = "two"       -> Function(CalleeId, <<ParamVar>>,
                                       Block(<<Assign(ParamVar, Math2("+", a, IntLit(1))),
                                               Return(a)>>))

\* the argument expressions of a call of a one-parameter callee
ArgumentExprs ==
  {IntLit(2), Var(ArgVar), Math2("+", Var(ArgVar), IntLit(1)),
   Math2("+", Math2("*", Var(ArgVar), Var(ArgVar)), IntLit(1)),
   Call(OneId, <<>>), CharLit(99)}

CallsOf(shape) ==
  IF Len(Callee(shape).params) = 0 THEN {Call(CalleeId, <<>>)}
  ELSE {Call(CalleeId, <<a>>) : a \in ArgumentExprs}

Positions == {"return", "assign", "operand", "compare", "if", "while", "argument"}

\* the caller's body with expression e in the chosen position
CallerBody(position, e) ==
  CASE position = "return"   -> Block(<<Return(e)>>)
    [] position = "assign"   -> Block(<<Assign(LocalVar, e), Return(Var(LocalVar))>>)
    [] position = "operand"  -> Block(<<Return(Math2("+", e, IntLit(1)))>>)
    [] position = "compare"  -> Block(<<Return(Math2("<", e, IntLit(3)))>>)
    [] position = "if"       -> Block(<<If2(e, Return(IntLit(1))), Return(IntLit(0))>>)
    [] position = "while"    -> Block(<<While(e, Block(<<Return(IntLit(1))>>)),
                                        Return(IntLit(0))>>)
    [] position = "argument" -> Block(<<Return(Call(KeepId, <<e>>))>>)

Caller(position, e) == Function(CallerId, <<ArgVar>>, CallerBody(position, e))

InitInline ==
  /\ OrderIdle /\ UnrollIdle /\ TailIdle /\ MainIdle /\ CloneIdle /\ WalkIdle
  /\ \E shape \in CalleeShapes : \E c \in CallsOf(shape) : \E position \in Positions :
       iOriginal = <<One, Keep, Callee(shape), Caller(position, c)>>
  /\ iProg = iOriginal
  /\ iFm = {}
  /\ iNext = 1
  /\ iPc = "pass"
  /\ iResult = NoResult

\* pass->run(*fun_ptr) for the next function of the program
InlinePass ==
  /\ iPc = "pass"
  /\ LET r == Inline_run(iProg, iFm, iNext, TRUE) IN
     /\ iProg' = [iProg EXCEPT ![iNext] = r.node]
     /\ iFm' = r.fm
  /\ iNext' = iNext + 1
  /\ iPc' = IF iNext = Len(iProg) THEN "call" ELSE "pass"
  /\ UNCHANGED <<iOriginal, iResult>>
  /\ UNCHANGED <<orderVars, unrollVars, tailVars, mainVars, cloneVars, walkVars>>

InlineCall ==
  /\ iPc = "call"
  /\ \E x \in {0, 2} :
       iResult' = [orig |-> CallFunction(iOriginal, CallerId, <<x>>, Fuel),
                   opt  |-> CallFunction(iProg, CallerId, <<x>>, Fuel)]
  /\ iPc' = "done"
  /\ UNCHANGED <<iOriginal, iProg, iFm, iNext>>
  /\ UNCHANGED <<orderVars, unrollVars, tailVars, mainVars, cloneVars, walkVars>>

NextInline == InlinePass \/ InlineCall

SpecInline == InitInline /\ [][NextInline]_vars

-----------------------------------------------------------------------------
(* Claim C6                                                                 *)

TheCallee == iOriginal[3]
TheCaller == iOriginal[4]

\* the callee's body is the sole statement return <literal>
LiteralCallee ==
  /\ TheCallee.ch[1] = Block(<<Return(Literal)>>)
  /\ TheCallee.params = <<>>

\* the caller with the literal where the call was, in position pos
InlinedAt(pos) == Caller(pos, Literal)

RECURSIVE CallsTo(_, _)
CallsTo(n, f) ==
  (IF n.kind = "FunctionCall" /\ n.val = f THEN 1 ELSE 0)
  + (LET RECURSIVE Sum(_)
         Sum(i) == IF i = 0 THEN 0 ELSE CallsTo(n.ch[i], f) + Sum(i - 1)
     IN Sum(NumChildren(n)))

\* C6: once the inlining pass has run on every function, a call of a callee
\* whose body is return <literal>; has been replaced by the literal, in
\* whatever position the call stands: operand of a return, right-hand side
\* of an assignment, operand of an arithmetic or comparison operator,
\* condition of an if or while, argument of another call.
C6_InlinedEverywhere ==
  (iPc \in {"call", "done"} /\ LiteralCallee) =>
    /\ CallsTo(iProg[4], CalleeId) = 0
    /\ \E pos \in Positions : TheCaller = Caller(pos, Call(CalleeId, <<>>))
                              /\ iProg[4] = InlinedAt(pos)

\* what the pass does: the call is replaced where it is the operand of a
\* return or the right-hand side of an assignment
InlinedAtReturnOrAssign ==
  (iPc \in {"call", "done"} /\ LiteralCallee) =>
    \A pos \in {"return", "assign"} :
      TheCaller = Caller(pos, Call(CalleeId, <<>>)) => iProg[4] = InlinedAt(pos)

-----------------------------------------------------------------------------
(* Specification SpecOrder: main's "--pass-order=" branch (lines 931-937)   *)
(* followed by ParsePassOrderSpec, one getline iteration per step.          *)

MaxTokens == 4

Tokens == {"inline", "unroll", "tail", "Tail", " unroll ", "", "bogus"}

RECURSIVE Join(_)
Join(toks) ==
  IF Len(toks) = 0 THEN ""
  ELSE IF Len(toks) = 1 THEN toks[1]
  ELSE toks[1] \o "," \o Join(Tail(toks))

InitOrder ==
  /\ UnrollIdle /\ TailIdle /\ InlineIdle /\ MainIdle /\ CloneIdle /\ WalkIdle
  /\ \E n \in 0..MaxTokens : \E toks \in [1..n -> Tokens] : spec = Join(toks)
  /\ ss = ""
  /\ order = <<>>
  /\ poState = "flag"

\* main, lines 931-937: flag = "--pass-order=" \o spec
PassOrderFlag ==
  /\ poState = "flag"
  /\ LET flag == "--pass-order=" \o spec IN
     /\ StartsWith(flag, "--pass-order=")
     /\ IF Len(Substr(flag, 13)) = 0
          THEN poState' = "exit1" /\ ss' = ss
          ELSE poState' = "getline" /\ ss' = Substr(flag, 13)
  /\ UNCHANGED <<spec, order>>
  /\ UNCHANGED <<unrollVars, tailVars, inlineVars, mainVars, cloneVars, walkVars>>

\* one pass through the body of while (std::getline(ss, token, ','))
PassOrderToken ==
  /\ poState = "getline"
  /\ Getline(ss).ok
  /\ LET r == PassOrderIter([ss |-> ss, order |-> order, status |-> "run"]) IN
     /\ ss' = r.ss
     /\ order' = r.order
     /\ poState' = IF r.status = "exit1" THEN "exit1" ELSE "getline"
  /\ UNCHANGED spec
  /\ UNCHANGED <<unrollVars, tailVars, inlineVars, mainVars, cloneVars, walkVars>>

\* the stream is exhausted: lines 78-83
PassOrderEnd ==
  /\ poState = "getline"
  /\ ~Getline(ss).ok
  /\ LET r == PassOrderIter([ss |-> ss, order |-> order, status |-> "run"]) IN
     poState' = r.status
  /\ UNCHANGED <<spec, ss, order>>
  /\ UNCHANGED <<unrollVars, tailVars, inlineVars, mainVars, cloneVars, walkVars>>

NextOrder == PassOrderFlag \/ PassOrderToken \/ PassOrderEnd

SpecOrder == InitOrder /\ [][NextOrder]_vars

-----------------------------------------------------------------------------
(* Claim C9                                                                 *)

\* the comma-separated fields of a text, as written
RECURSIVE SplitCommas(_)
SplitCommas(s) ==
  LET p == FindChar(s, ",", 1) IN
  IF p = 0 THEN <<s>> ELSE <<SubSeq(s, 1, p - 1)>> \o SplitCommas(Substr(s, p))

PassNames == {"inline", "unroll", "tail"}

\* each of the three names exactly once, compared case-insensitively
IsPermutationOfPasses(names) ==
  /\ Len(names) = 3
  /\ {Lowered(names[i]) : i \in 1..Len(names)} = PassNames

\* a field without its leading and trailing blanks
RECURSIVE StripBlanks(_)
StripBlanks(s) ==
  IF Len(s) = 0 THEN s
  ELSE IF IsSpace(CharAt(s, 1)) THEN StripBlanks(Substr(s, 1))
  ELSE IF IsSpace(CharAt(s, Len(s))) THEN StripBlanks(SubSeq(s, 1, Len(s) - 1))
  ELSE s

RECURSIVE NonBlank(_)
NonBlank(names) ==
  IF Len(names) = 0 THEN <<>>
  ELSE IF Len(StripBlanks(Head(names))) = 0 THEN NonBlank(Tail(names))
  ELSE <<StripBlanks(Head(names))>> \o NonBlank(Tail(names))

\* C9 as stated: --pass-order=<spec> is accepted iff its comma-separated
\* names, case-insensitively, are a permutation of {inline, unroll, tail};
\* anything else ends in exit code 1.
C9_AsStated ==
  /\ poState = "ok" => IsPermutationOfPasses(SplitCommas(spec))
  /\ poState = "exit1" => ~IsPermutationOfPasses(SplitCommas(spec))

\* C9 amended: --pass-order=<spec> is accepted iff its comma-separated
\* fields, after stripping surrounding whitespace and dropping the empty
\* ones, are case-insensitively a permutation of {inline, unroll, tail};
\* anything else (unknown, duplicated or missing name) ends in exit code 1,
\* and the accepted order is the order of the names in the text.
C9_PassOrderAccepted ==
  LET names == NonBlank(SplitCommas(spec)) IN
  /\ poState = "ok" =>
       /\ IsPermutationOfPasses(names)
       /\ order = [i \in 1..3 |-> PassIdOf(Lowered(names[i]))]
  /\ poState = "exit1" => ~IsPermutationOfPasses(names)

\* an accepted text that is not all lower case and holds an empty field
C9_Witness ==
  /\ poState = "ok"
  /\ spec # Lowered(spec)
  /\ order = <<"Tail", "Inline", "Unroll">>

C9_WitnessReject == poState = "exit1" /\ Len(order) = 2

-----------------------------------------------------------------------------
(* main, Tubular::RunOptimizationPasses and PassManager::runPasses          *)

Digits == "0123456789"
IsDigit(c) == \E d \in 1..10 : CharAt(Digits, d) = c
DigitVal(c) == (CHOOSE d \in 1..10 : CharAt(Digits, d) = c) - 1

\* the digits from (1-based) position i on; ok = FALSE: std::out_of_range
RECURSIVE StoiDigits(_, _, _)
StoiDigits(str, i, acc) ==
  IF i > Len(str) \/ ~IsDigit(CharAt(str, i)) THEN [ok |-> TRUE, val |-> acc]
  ELSE LET d == DigitVal(CharAt(str, i)) IN
       IF acc > (MaxInt - d) \div 10 THEN [ok |-> FALSE, val |-> 0]
       ELSE StoiDigits(str, i + 1, 10 * acc + d)

\* std::stoi(str): leading white space is skipped, an optional sign and the
\* longest run of digits are converted, whatever follows is ignored;
\* ok = FALSE stands for std::invalid_argument or std::out_of_range
Stoi(str) ==
  LET start == TrimStart(str, 0)
      signed == start < Len(str) /\ CharAt(str, start + 1) \in {"+", "-"}
      first == IF signed THEN start + 2 ELSE start + 1
  IN IF first > Len(str) \/ ~IsDigit(CharAt(str, first)) THEN [ok |-> FALSE, val |-> 0]
     ELSE LET r == StoiDigits(str, first, 0) IN
          IF ~r.ok THEN r
          ELSE [ok |-> TRUE,
                val |-> IF signed /\ CharAt(str, start + 1) = "-" THEN -r.val ELSE r.val]

argc == Len(argv)

\* std::string flag = argv[i]
flag == argv[argi + 1]

InFlagLoop == pc = "flags" /\ argi < argc

Exit(code) ==
  /\ pc' = "exit"
  /\ exitCode' = code

NextFlag(o) ==
  /\ opt' = o
  /\ argi' = argi + 1
  /\ UNCHANGED <<pc, exitCode>>

\* lines 858-881
CheckArgs ==
  /\ pc = "start"
  /\ IF argc < 2 THEN Exit(1) /\ UNCHANGED <<opt, argi>>
     ELSE IF argv[2] = "--help" \/ argv[2] = "-h" THEN Exit(0) /\ UNCHANGED <<opt, argi>>
     ELSE /\ opt' = [NoOptions EXCEPT !.filename = argv[2]]
          /\ argi' = 2
          /\ pc' = "flags"
          /\ UNCHANGED exitCode
  /\ UNCHANGED <<argv, source, functions, passes, cur, functionMap, runLog>>
  /\ UNCHANGED <<orderVars, unrollVars, tailVars, inlineVars, cloneVars, walkVars>>

\* lines 886-888
FlagNoUnroll ==
  /\ InFlagLoop
  /\ flag = "--no-unroll"
  /\ NextFlag([opt EXCEPT !.enableLoopUnrolling = FALSE, !.seenNoUnroll = TRUE])
  /\ UNCHANGED <<argv, source, functions, passes, cur, functionMap, runLog>>
  /\ UNCHANGED <<orderVars, unrollVars, tailVars, inlineVars, cloneVars, walkVars>>

\* lines 889-890
FlagNoInline ==
  /\ InFlagLoop
  /\ flag = "--no-inline"
  /\ NextFlag([opt EXCEPT !.enableFunctionInlining = FALSE])
  /\ UNCHANGED <<argv, source, functions, passes, cur, functionMap, runLog>>
  /\ UNCHANGED <<orderVars, unrollVars, tailVars, inlineVars, cloneVars, walkVars>>

\* lines 891-912
FlagUnrollFactor ==
  /\ InFlagLoop
  /\ flag \notin {"--no-unroll", "--no-inline"}
  /\ StartsWith(flag, "--unroll-factor=")
  /\ LET factorStr == Substr(flag, 16)
         r == Stoi(factorStr)
     IN IF opt.seenUnrollFactor THEN Exit(1) /\ UNCHANGED <<opt, argi>>
        ELSE IF ~r.ok THEN Exit(1) /\ UNCHANGED <<opt, argi>>
        ELSE IF r.val < 1 \/ r.val > 16 THEN Exit(1) /\ UNCHANGED <<opt, argi>>
        ELSE NextFlag([opt EXCEPT !.unrollFactor = r.val,
                                  !.enableLoopUnrolling =
                                     IF r.val = 1 THEN FALSE ELSE opt.enableLoopUnrolling,
                                  !.seenUnrollFactor = TRUE])
  /\ UNCHANGED <<argv, source, functions, passes, cur, functionMap, runLog>>
  /\ UNCHANGED <<orderVars, unrollVars, tailVars, inlineVars, cloneVars, walkVars>>

\* lines 913-931, without the two tests for a conflict
FlagTail_LastWins ==
  /\ InFlagLoop
  /\ flag \notin {"--no-unroll", "--no-inline"}
  /\ ~StartsWith(flag, "--unroll-factor=")
  /\ StartsWith(flag, "--tail=")
  /\ LET mode == Substr(flag, 7) IN
     IF mode = "loop" THEN NextFlag([opt EXCEPT !.enableTailLoopify = TRUE, !.seenTail = TRUE])
     ELSE IF mode = "off" THEN NextFlag([opt EXCEPT !.enableTailLoopify = FALSE, !.seenTail = TRUE])
     ELSE Exit(1) /\ UNCHANGED <<opt, argi>>
  /\ UNCHANGED <<argv, source, functions, passes, cur, functionMap, runLog>>
  /\ UNCHANGED <<orderVars, unrollVars, tailVars, inlineVars, cloneVars, walkVars>>

\* lines 913-931, with the test for a conflict in the branch of loop only
FlagTail_LoopAfterOffOnly ==
  /\ InFlagLoop
  /\ flag \notin {"--no-unroll", "--no-inline"}
  /\ ~StartsWith(flag, "--unroll-factor=")
  /\ StartsWith(flag, "--tail=")
  /\ LET mode == Substr(flag, 7) IN
     IF mode = "loop" THEN
       IF opt.seenTail /\ ~opt.enableTailLoopify THEN Exit(1) /\ UNCHANGED <<opt, argi>>
       ELSE NextFlag([opt EXCEPT !.enableTailLoopify = TRUE, !.seenTail = TRUE])
     ELSE IF mode = "off" THEN
       NextFlag([opt EXCEPT !.enableTailLoopify = FALSE, !.seenTail = TRUE])
     ELSE Exit(1) /\ UNCHANGED <<opt, argi>>
  /\ UNCHANGED <<argv, source, functions, passes, cur, functionMap, runLog>>
  /\ UNCHANGED <<orderVars, unrollVars, tailVars, inlineVars, cloneVars, walkVars>>

\* lines 913-931
FlagTail ==
  /\ InFlagLoop
  /\ flag \notin {"--no-unroll", "--no-inline"}
  /\ ~StartsWith(flag, "--unroll-factor=")
  /\ StartsWith(flag, "--tail=")
  /\ LET mode == Substr(flag, 7) IN
     IF mode = "loop" THEN
       IF opt.seenTail /\ ~opt.enableTailLoopify THEN Exit(1) /\ UNCHANGED <<opt, argi>>
       ELSE NextFlag([opt EXCEPT !.enableTailLoopify = TRUE, !.seenTail = TRUE])
     ELSE IF mode = "off" THEN
       IF opt.seenTail /\ opt.enableTailLoopify THEN Exit(1) /\ UNCHANGED <<opt, argi>>
       ELSE NextFlag([opt EXCEPT !.enableTailLoopify = FALSE, !.seenTail = TRUE])
     ELSE Exit(1) /\ UNCHANGED <<opt, argi>>
  /\ UNCHANGED <<argv, source, functions, passes, cur, functionMap, runLog>>
  /\ UNCHANGED <<orderVars, unrollVars, tailVars, inlineVars, cloneVars, walkVars>>

\* lines 932-938
FlagPassOrder ==
  /\ InFlagLoop
  /\ flag \notin {"--no-unroll", "--no-inline"}
  /\ ~StartsWith(flag, "--unroll-factor=")
  /\ ~StartsWith(flag, "--tail=")
  /\ StartsWith(flag, "--pass-order=")
  /\ LET text == Substr(flag, 13) IN
     IF Len(text) = 0 THEN Exit(1) /\ UNCHANGED <<opt, argi>>
     ELSE LET r == ParsePassOrderSpec(text) IN
          IF ~r.ok THEN Exit(1) /\ UNCHANGED <<opt, argi>>
          ELSE NextFlag([opt EXCEPT !.passOrder = r.order])
  /\ UNCHANGED <<argv, source, functions, passes, cur, functionMap, runLog>>
  /\ UNCHANGED <<orderVars, unrollVars, tailVars, inlineVars, cloneVars, walkVars>>

\* lines 939-941
FlagUnknown ==
  /\ InFlagLoop
  /\ flag \notin {"--no-unroll", "--no-inline"}
  /\ ~StartsWith(flag, "--unroll-factor=")
  /\ ~StartsWith(flag, "--tail=")
  /\ ~StartsWith(flag, "--pass-order=")
  /\ Exit(1)
  /\ UNCHANGED <<opt, argi>>
  /\ UNCHANGED <<argv, source, functions, passes, cur, functionMap, runLog>>
  /\ UNCHANGED <<orderVars, unrollVars, tailVars, inlineVars, cloneVars, walkVars>>

\* the test after the loop left out
Validate_NoConflictCheck ==
  /\ pc = "flags" /\ argi >= argc
  /\ pc' = "parse" /\ UNCHANGED exitCode
  /\ UNCHANGED <<argv, source, argi, opt, functions, passes, cur, functionMap, runLog>>
  /\ UNCHANGED <<orderVars, unrollVars, tailVars, inlineVars, cloneVars, walkVars>>

\* lines 944-949: the test after the loop
Validate ==
  /\ pc = "flags" /\ argi >= argc
  /\ IF opt.seenNoUnroll /\ opt.seenUnrollFactor /\ opt.unrollFactor > 1
       THEN Exit(1)
       ELSE pc' = "parse" /\ UNCHANGED exitCode
  /\ UNCHANGED <<argv, source, argi, opt, functions, passes, cur, functionMap, runLog>>
  /\ UNCHANGED <<orderVars, unrollVars, tailVars, inlineVars, cloneVars, walkVars>>

\* lines 951-952: Tubular prog(filename); prog.Parse();
ParseFile ==
  /\ pc = "parse"
  /\ functions' = source
  /\ pc' = "addPasses"
  /\ UNCHANGED <<argv, source, argi, opt, exitCode, passes, cur, functionMap, runLog>>
  /\ UNCHANGED <<orderVars, unrollVars, tailVars, inlineVars, cloneVars, walkVars>>

NewPass(id, enabled, factor) == [id |-> id, enabled |-> enabled, factor |-> factor]

\* effectiveOrder that overlooks the order handed in
effectiveOrder_AlwaysDefault(passOrder) == <<"Inline", "Unroll", "Tail">>

\* lines 794-797
effectiveOrder(passOrder) ==
  IF Len(passOrder) = 0 THEN <<"Inline", "Unroll", "Tail">> ELSE passOrder

\* lines 799-815: the passes added for the slots of the order
RECURSIVE AddedPasses(_, _)
AddedPasses(slots, o) ==
  IF Len(slots) = 0 THEN <<>>
  ELSE LET id == Head(slots)
           added ==
             CASE id = "Inline" ->
                    IF o.enableFunctionInlining THEN <<NewPass("Inline", TRUE, 0)>> ELSE <<>>
               [] id = "Unroll" ->
                    IF o.enableLoopUnrolling
                      THEN <<NewPass("Unroll", TRUE, o.unrollFactor)>> ELSE <<>>
               [] id = "Tail" -> <<NewPass("Tail", o.enableTailLoopify, 0)>>
       IN added \o AddedPasses(Tail(slots), o)

\* RunOptimizationPasses up to its last loop
AddPasses ==
  /\ pc = "addPasses"
  /\ passes' = AddedPasses(effectiveOrder(opt.passOrder), opt)
  /\ cur' = [fn |-> 1, pass |-> 1]
  /\ pc' = IF Len(functions) = 0 THEN "wat" ELSE "run"
  /\ UNCHANGED <<argv, source, argi, opt, exitCode, functions, functionMap, runLog>>
  /\ UNCHANGED <<orderVars, unrollVars, tailVars, inlineVars, cloneVars, walkVars>>

thePass == passes[cur.pass]

\* what one pass->run(root) leaves behind: the function becomes node, cur
\* moves on through runPasses and the loop over the functions
Ran(node) ==
  /\ functions' = [functions EXCEPT ![cur.fn] = node]
  /\ runLog' = Append(runLog, [fn |-> cur.fn, pass |-> thePass.id,
                               changed |-> node # functions[cur.fn]])
  /\ IF cur.pass < Len(passes) THEN cur' = [cur EXCEPT !.pass = cur.pass + 1] /\ pc' = "run"
     ELSE IF cur.fn < Len(functions) THEN cur' = [fn |-> cur.fn + 1, pass |-> 1] /\ pc' = "run"
     ELSE cur' = cur /\ pc' = "wat"

RunInline ==
  /\ pc = "run" /\ thePass.id = "Inline"
  /\ LET r == Inline_run(functions, functionMap, cur.fn, thePass.enabled) IN
     /\ Ran(r.node)
     /\ functionMap' = r.fm
  /\ UNCHANGED <<argv, source, argi, opt, exitCode, passes>>
  /\ UNCHANGED <<orderVars, unrollVars, tailVars, inlineVars, cloneVars, walkVars>>

RunUnroll ==
  /\ pc = "run" /\ thePass.id = "Unroll"
  /\ Ran(Unroll_run(functions[cur.fn], thePass.factor))
  /\ UNCHANGED <<argv, source, argi, opt, exitCode, passes, functionMap>>
  /\ UNCHANGED <<orderVars, unrollVars, tailVars, inlineVars, cloneVars, walkVars>>

RunTail ==
  /\ pc = "run" /\ thePass.id = "Tail"
  /\ \E hashOrder \in HashOrders(Len(functions[cur.fn].params)) :
       Ran(Tail_run(functions[cur.fn], thePass.enabled, hashOrder).node)
  /\ UNCHANGED <<argv, source, argi, opt, exitCode, passes, functionMap>>
  /\ UNCHANGED <<orderVars, unrollVars, tailVars, inlineVars, cloneVars, walkVars>>

\* lines 961-962, and the return from main
ToWAT ==
  /\ pc = "wat"
  /\ Exit(0)
  /\ UNCHANGED <<argv, source, argi, opt, functions, passes, cur, functionMap, runLog>>
  /\ UNCHANGED <<orderVars, unrollVars, tailVars, inlineVars, cloneVars, walkVars>>

-----------------------------------------------------------------------------
(* Specification Spec: main on a command line of up to MaxFlags flags and   *)
(* an input file holding one of a few programs.                             *)

MaxFlags == 3

Flags ==
  {"--no-unroll", "--no-inline",
   "--unroll-factor=0", "--unroll-factor=1", "--unroll-factor=2", "--unroll-factor=17",
   "--unroll-factor=2x", "--unroll-factor=x",
   "--tail=loop", "--tail=off", "--tail=on",
   "--pass-order=tail,unroll,inline", "--pass-order=inline,inline,tail",
   "--pass-order=",
   "--bogus"}

FlagLists == UNION {[1..n -> Flags] : n \in 0..MaxFlags}

\* function sum(n) { s = 0; i = 0; while (i < n) { <body> } return s; }
SumFunction(f, body) ==
  Function(f, <<1>>,
           Block(<<Assign(2, IntLit(0)), Assign(3, IntLit(0)),
                   While(Math2("<", Var(3), Var(1)), Block(body)),
                   Return(Var(2))>>))

AddToSum == Assign(2, Math2("+", Var(2), Var(3)))
NextIndex == Assign(3, Math2("+", Var(3), IntLit(1)))

SumLast == SumFunction(10, <<AddToSum, NextIndex>>)
SumFirst == SumFunction(11, <<NextIndex, AddToSum>>)

\* function fact_acc(n, a) { if (n <= 1) return a; return fact_acc(n-1, n*a); }
FactAcc ==
  Function(12, <<1, 2>>,
           Block(<<If2(Math2("<=", Var(1), IntLit(1)), Return(Var(2))),
                   Return(Call(12, <<Math2("-", Var(1), IntLit(1)),
                                     Math2("*", Var(1), Var(2))>>))>>))

\* function inc(a) { return a + 1; }   function twice(x) { return inc(x); }
Inc == Function(13, <<1>>, Block(<<Return(Math2("+", Var(1), IntLit(1)))>>))
Twice == Function(14, <<2>>, Block(<<Return(Call(13, <<Var(2)>>))>>))

Programs == {<<SumLast>>, <<SumFirst>>, <<FactAcc>>, <<Inc, Twice>>}

Init ==
  /\ OrderIdle /\ UnrollIdle /\ TailIdle /\ InlineIdle /\ CloneIdle /\ WalkIdle
  /\ argv \in {<<"tubular">>, <<"tubular", "--help">>}
             \cup {<<"tubular", "prog.tub">> \o fl : fl \in FlagLists}
  /\ source \in Programs
  /\ pc = "start"
  /\ argi = 0
  /\ opt = NoOptions
  /\ exitCode = -1
  /\ functions = <<>>
  /\ passes = <<>>
  /\ cur = [fn |-> 0, pass |-> 0]
  /\ functionMap = {}
  /\ runLog = <<>>

Next ==
  \/ CheckArgs
  \/ FlagNoUnroll \/ FlagNoInline \/ FlagUnrollFactor \/ FlagTail \/ FlagPassOrder
  \/ FlagUnknown
  \/ Validate
  \/ ParseFile
  \/ AddPasses
  \/ RunInline \/ RunUnroll \/ RunTail
  \/ ToWAT

Spec == Init /\ [][Next]_vars

-----------------------------------------------------------------------------
(* Claims C1, C7, C8, C10                                                   *)

\* the flags of the command line
GivenFlags == IF Len(argv) <= 2 THEN <<>> ELSE SubSeq(argv, 3, Len(argv))
Given(f) == InSeq(f, GivenFlags)

\* main returned after compiling the file
Finished == pc = "exit" /\ exitCode = 0 /\ Len(functions) = Len(source)

InputValues == {0, 2, 5}
InputVectors(k) == [1..k -> InputValues]

\* C1: every function of the optimized program returns, on every input
\* vector, what the same function of the program as parsed returns (the
\* language has no other observable effect), whatever the pass order, the
\* enable flags and the unroll factor.
C1_SameBehaviour ==
  Finished =>
    \A n \in 1..Len(source) :
      \A vals \in InputVectors(Len(source[n].params)) :
        LET before == CallFunction(source, source[n].val, vals, Fuel)
            after  == CallFunction(functions, source[n].val, vals, Fuel)
        IN (before.st # "oof" /\ after.st # "oof") => after = before

\* --- what the command line asks for, read off the flags themselves ---

PassOrderFlags == SelectSeq(GivenFlags, LAMBDA f : StartsWith(f, "--pass-order="))
FactorFlags == SelectSeq(GivenFlags, LAMBDA f : StartsWith(f, "--unroll-factor="))

\* the order asked for: the names of the (one) --pass-order flag in the
\* order of its text, inline, unroll, tail without the flag
AskedOrder ==
  IF Len(PassOrderFlags) = 0 THEN <<"Inline", "Unroll", "Tail">>
  ELSE LET names == NonBlank(SplitCommas(Substr(PassOrderFlags[1], 13)))
       IN [i \in 1..Len(names) |-> PassIdOf(Lowered(names[i]))]

AskedEnabled(id) ==
  CASE id = "Inline" -> ~Given("--no-inline")
    [] id = "Unroll" -> ~Given("--no-unroll") /\ ~Given("--unroll-factor=1")
    [] id = "Tail"   -> ~Given("--tail=off")

\* the enabled passes in the order asked for
AskedPasses == SelectSeq(AskedOrder, AskedEnabled)

\* the enabled passes run on function n so far, in the order of the calls
RunsOn(n) ==
  LET mine == SelectSeq(runLog, LAMBDA e : e.fn = n /\ AskedEnabled(e.pass))
  IN [k \in 1..Len(mine) |-> mine[k].pass]

IsPrefix(a, b) == Len(a) <= Len(b) /\ a = SubSeq(b, 1, Len(a))

\* C7: on every function the enabled passes run in the order the
\* --pass-order permutation gives (inline, unroll, tail by default): at any
\* moment the runs made on a function are an initial part of that order, so
\* a later slot starts only after the earlier ones and none runs twice, and
\* when main is through every function has had all of them.
C7_PassOrderRespected ==
  (Len(PassOrderFlags) <= 1 /\ pc \in {"run", "wat", "exit"} /\ exitCode # 1) =>
    \A n \in 1..Len(functions) :
      /\ IsPrefix(RunsOn(n), AskedPasses)
      /\ pc \in {"wat", "exit"} => RunsOn(n) = AskedPasses

\* tail, unroll, inline asked for and run in that order on a function
C7_Witness ==
  /\ Finished
  /\ Given("--pass-order=tail,unroll,inline")
  /\ RunsOn(1) = <<"Tail", "Unroll", "Inline">>

\* C8: a disabled pass leaves every function as it is: no call pass->run of
\* a pass that --no-inline, --no-unroll, --unroll-factor=1 or --tail=off
\* disables changes a function, with all three disabled the compiled
\* functions are the parsed ones, and each pass's own switch (factor 1,
\* loopify off, inlining off) makes its run the identity.
C8_DisabledPassIdentity ==
  /\ \A k \in 1..Len(runLog) : ~AskedEnabled(runLog[k].pass) => ~runLog[k].changed
  /\ (Finished /\ \A id \in PassIds : ~AskedEnabled(id)) => functions = source
  /\ \A n \in 1..Len(functions) :
       /\ Unroll_run(source[n], 1) = source[n]
       /\ Inline_run(source, {source[k].val : k \in 1..n}, n, FALSE).node = source[n]
       /\ \A h \in HashOrders(Len(source[n].params)) :
            Tail_run(source[n], FALSE, h).node = source[n]

\* the tail pass, switched off, has run on the tail-recursive function
C8_Witness ==
  /\ Finished
  /\ Given("--tail=off")
  /\ source = <<FactAcc>>
  /\ \E k \in 1..Len(runLog) : runLog[k].pass = "Tail" /\ ~runLog[k].changed
  /\ functions = source

\* --- configuration errors, read off the flags themselves ---

KnownFlag(f) ==
  \/ f \in {"--no-unroll", "--no-inline"}
  \/ StartsWith(f, "--unroll-factor=")
  \/ StartsWith(f, "--tail=")
  \/ StartsWith(f, "--pass-order=")

\* the decimal numerals of the integers 1..16
FactorNumerals ==
  {"1", "2", "3", "4", "5", "6", "7", "8", "9", "10", "11", "12", "13", "14", "15", "16"}

BadFactor(f) == StartsWith(f, "--unroll-factor=") /\ Substr(f, 16) \notin FactorNumerals

BadPassOrder(f) ==
  /\ StartsWith(f, "--pass-order=")
  /\ ~IsPermutationOfPasses(NonBlank(SplitCommas(Substr(f, 13))))

ConfigurationError ==
  \/ \E k \in 1..Len(GivenFlags) :
       \/ ~KnownFlag(GivenFlags[k])
       \/ BadFactor(GivenFlags[k])
       \/ BadPassOrder(GivenFlags[k])
  \/ Given("--tail=loop") /\ Given("--tail=off")
  \/ Given("--no-unroll") /\ \E k \in 1..Len(FactorFlags) :
       ~BadFactor(FactorFlags[k]) /\ FactorFlags[k] # "--unroll-factor=1"

\* C10: a command line with a configuration error (unknown flag,
\* out-of-range or malformed unroll factor, duplicate or unknown pass name,
\* incomplete --pass-order, conflicting --tail values, --no-unroll with
\* --unroll-factor=N>1) never gets its file parsed nor a pass added or run,
\* and exits with code 1, wherever the flag stands.
C10_ConfigErrorExitsEarly ==
  (Len(argv) >= 2 /\ ConfigurationError) =>
    /\ functions = <<>> /\ passes = <<>> /\ runLog = <<>>
    /\ pc \notin {"parse", "addPasses", "run", "wat"}
    /\ pc = "exit" => exitCode = 1

\* the same without the malformed factors std::stoi accepts
MalformedAccepted(f) == BadFactor(f) /\ Stoi(Substr(f, 16)).ok
                        /\ Stoi(Substr(f, 16)).val \in 1..16

C10_ExceptMalformedFactor ==
  (\A k \in 1..Len(GivenFlags) : ~MalformedAccepted(GivenFlags[k]))
    => C10_ConfigErrorExitsEarly

-----------------------------------------------------------------------------
(* Claims C11, C12: combinations of flags                                  *)

Rejected == pc = "exit" /\ exitCode = 1 /\ functions = <<>> /\ runLog = <<>>

\* main is past the loop over the flags and its test
Accepted == pc \in {"parse", "addPasses", "run", "wat"} \/ Finished

OutOfRangeFactors == {"--unroll-factor=0", "--unroll-factor=17"}
FactorsAboveOne == {"--unroll-factor=2"}

\* no flag of the command line other than the ones in fs
OnlyFlags(fs) == \A k \in 1..Len(GivenFlags) : GivenFlags[k] \in fs

\* C11: --unroll-factor=1 together with --no-unroll, in either order, is
\* accepted and no unrolling pass is added or run; --unroll-factor=N with
\* N > 1 together with --no-unroll, in either order, ends in exit code 1
\* with nothing parsed; a command line with a factor outside 1..16 ends in
\* exit code 1 with nothing parsed, whatever its other flags.
C11_FactorAndNoUnroll ==
  /\ (Given("--no-unroll") /\ Given("--unroll-factor=1") /\ Len(FactorFlags) = 1
        /\ OnlyFlags({"--no-unroll", "--unroll-factor=1"}))
       => /\ pc = "exit" => Finished
          /\ \A k \in 1..Len(passes) : passes[k].id # "Unroll"
          /\ \A k \in 1..Len(runLog) : runLog[k].pass # "Unroll"
          /\ argi >= argc => ~opt.enableLoopUnrolling
  /\ (Given("--no-unroll") /\ \E f \in FactorsAboveOne : Given(f))
       => /\ ~Accepted
          /\ pc = "exit" => Rejected
  /\ (\E f \in OutOfRangeFactors : Given(f))
       => /\ ~Accepted
          /\ pc = "exit" => Rejected

\* the factor before the switch: compiled, and no unrolling pass has run
C11_Witness ==
  /\ Finished
  /\ GivenFlags = <<"--unroll-factor=1", "--no-unroll">>
  /\ Len(runLog) > 0
  /\ \A k \in 1..Len(runLog) : runLog[k].pass # "Unroll"

\* the factor 2 before the switch: rejected by the test after the loop
C11_WitnessRejected ==
  /\ Rejected
  /\ GivenFlags = <<"--unroll-factor=2", "--no-unroll">>
  /\ argi = argc

\* the --tail flags of the command line, in their order
TailFlags == SelectSeq(GivenFlags, LAMBDA f : StartsWith(f, "--tail="))

\* C12: a command line with both --tail=loop and --tail=off, in either
\* order and whatever stands between them, ends in exit code 1 with nothing
\* parsed; a command line whose flags are one --tail value, once or
\* repeated, is accepted, and the tail pass it adds is switched on exactly
\* when the value is loop.
C12_TailConflict ==
  /\ (Given("--tail=loop") /\ Given("--tail=off"))
       => /\ ~Accepted
          /\ pc = "exit" => Rejected
  /\ \A mode \in {"--tail=loop", "--tail=off"} :
       (Len(TailFlags) >= 1 /\ OnlyFlags({mode}))
         => /\ pc = "exit" => Finished
            /\ argi >= argc => (opt.enableTailLoopify <=> mode = "--tail=loop")
            /\ \A k \in 1..Len(passes) :
                 passes[k].id = "Tail" => (passes[k].enabled <=> mode = "--tail=loop")
            /\ pc \in {"run", "wat"} \/ Finished
                 => \E k \in 1..Len(passes) : passes[k].id = "Tail"

\* off, another flag, loop: stopped at the third flag
C12_Witness ==
  /\ Rejected
  /\ Len(GivenFlags) = 3
  /\ GivenFlags[1] = "--tail=off" /\ GivenFlags[3] = "--tail=loop"
  /\ GivenFlags[2] = "--no-inline"
  /\ argi = 4

\* --tail=loop twice: compiled, the tail pass switched on
C12_WitnessRepeated ==
  /\ Finished
  /\ GivenFlags = <<"--tail=loop", "--tail=loop">>
  /\ \E k \in 1..Len(passes) : passes[k].id = "Tail" /\ passes[k].enabled

-----------------------------------------------------------------------------
(* ASTCloner (src/src/core/ASTCloner.hpp).  The nodes live on a heap, a     *)
(* sequence of cells: the cell at address a is a node whose ch are the      *)
(* addresses of its children, 0 being an empty pointer.  std::make_unique   *)
(* appends a cell; a clone that is given up is destroyed with its nodes.    *)

\* the value of a FloatLit in tenths, the text of a StringLit in op
FloatLit(v)    == Node("FloatLit", "", v, <<>>)
StringLit(str) == Node("StringLit", str, 0, <<>>)
Indexing(b, i) == Node("Indexing", "", 0, <<b, i>>)
Size(a)        == Node("Size", "", 0, <<a>>)
ToDouble(a)    == Node("ToDouble", "", 0, <<a>>)
ToStr(a)       == Node("ToString", "", 0, <<a>>)

\* std::make_unique<...>(...): [heap, at]
New(h, cell) == [heap |-> Append(h, cell), at |-> Len(h) + 1]

\* return nullptr: whatever was made since h is gone
Nothing(h) == [heap |-> h, at |-> 0]

\* ASTNode_CharLit::GetTypeName(): a prefix and std::to_string(value).  The
\* prefix is "CHAR_LIT:" as in "INT_LIT:5" or "CHAR_LIT: " as in "VAR: 5"
CharLitFormats == {"CHAR_LIT:", "CHAR_LIT: "}
CharLit_GetTypeName(n) == cFormat \o ToString(n.val)

\* std::string::find(sub): the 0-based position of the first occurrence of
\* sub in str from position pos on, -1 for npos
RECURSIVE Find(_, _, _)
Find(str, sub, pos) ==
  IF pos + Len(sub) > Len(str) THEN -1
  ELSE IF SubSeq(str, pos + 1, pos + Len(sub)) = sub THEN pos
  ELSE Find(str, sub, pos + 1)

NonZero(seq) == SelectSeq(seq, LAMBDA x : x # 0)

RECURSIVE ASTCloner_clone(_, _)

\* clone on each of the children at the addresses kids, in order:
\* [heap, at], at[i] = 0 where clone returned an empty pointer
RECURSIVE cloneEach(_, _)
cloneEach(h, kids) ==
  IF Len(kids) = 0 THEN [heap |-> h, at |-> <<>>]
  ELSE LET first == ASTCloner_clone(h, Head(kids))
           rest  == cloneEach(first.heap, Tail(kids))
       IN [heap |-> rest.heap, at |-> <<first.at>> \o rest.at]

AllCloned(r) == \A i \in 1..Len(r.at) : r.at[i] # 0

\* lines 35-37
cloneVar(h, a) == New(h, Node("Var", "", h[a].val, <<>>))

\* lines 40-49: out is made first, a child without a clone is passed over
cloneBlock(h, a) ==
  LET out == New(h, Node("Block", "", 0, <<>>))
      r   == cloneEach(out.heap, NonZero(h[a].ch))
  IN [heap |-> [r.heap EXCEPT ![out.at].ch = NonZero(r.at)], at |-> out.at]

\* lines 51-59
cloneWhile(h, a) ==
  IF Len(h[a].ch) < 2 THEN Nothing(h)
  ELSE LET r == cloneEach(h, SubSeq(h[a].ch, 1, 2)) IN
       IF AllCloned(r) THEN New(r.heap, Node("While", "", 0, r.at)) ELSE Nothing(h)

\* lines 61-77
cloneIf(h, a) ==
  IF Len(h[a].ch) \in {2, 3}
    THEN LET r == cloneEach(h, h[a].ch) IN
         IF AllCloned(r) THEN New(r.heap, Node("If", "", 0, r.at)) ELSE Nothing(h)
    ELSE Nothing(h)

\* lines 79-87
cloneReturn(h, a) ==
  IF Len(h[a].ch) >= 1
    THEN LET r == cloneEach(h, SubSeq(h[a].ch, 1, 1)) IN
         IF AllCloned(r) THEN New(r.heap, Node("Return", "", 0, r.at)) ELSE Nothing(h)
    ELSE Nothing(h)

\* lines 89-98
cloneMath2(h, a) ==
  IF Len(h[a].ch) >= 2
    THEN LET r == cloneEach(h, SubSeq(h[a].ch, 1, 2)) IN
         IF AllCloned(r) THEN New(r.heap, Node("Math2", h[a].op, 0, r.at)) ELSE Nothing(h)
    ELSE Nothing(h)

\* lines 100-108
cloneMath1(h, a) ==
  IF Len(h[a].ch) >= 1
    THEN LET r == cloneEach(h, SubSeq(h[a].ch, 1, 1)) IN
         IF AllCloned(r) THEN New(r.heap, Node("Math1", h[a].op, 0, r.at)) ELSE Nothing(h)
    ELSE Nothing(h)

\* lines 111-113
cloneIntLit(h, a) == New(h, Node("IntLit", "", h[a].val, <<>>))

\* lines 115-117
cloneFloatLit(h, a) == New(h, Node("FloatLit", "", h[a].val, <<>>))

\* lines 119-128: the value is read back from the type name
cloneCharLit(h, a) ==
  LET tn  == CharLit_GetTypeName(h[a])
      pos == Find(tn, ": ", 0)
      val == IF pos = -1 THEN 0
             ELSE LET r == Stoi(Substr(tn, pos + 2)) IN IF r.ok THEN r.val ELSE 0
  IN New(h, Node("CharLit", "", val, <<>>))

\* lines 130-132
cloneStringLit(h, a) == New(h, Node("StringLit", h[a].op, 0, <<>>))

\* lines 134-144: an argument without a clone is passed over
cloneFunctionCall(h, a) ==
  LET r == cloneEach(h, NonZero(h[a].ch))
  IN New(r.heap, Node("FunctionCall", "", h[a].val, NonZero(r.at)))

\* lines 146-155
cloneIndexing(h, a) ==
  IF Len(h[a].ch) >= 2
    THEN LET r == cloneEach(h, SubSeq(h[a].ch, 1, 2)) IN
         IF AllCloned(r) THEN New(r.heap, Node("Indexing", "", 0, r.at)) ELSE Nothing(h)
    ELSE Nothing(h)

\* lines 157-195: cloneSize, cloneToDouble, cloneToInt, cloneToString
cloneConversion(h, a) ==
  IF Len(h[a].ch) >= 1
    THEN LET r == cloneEach(h, SubSeq(h[a].ch, 1, 1)) IN
         IF AllCloned(r) THEN New(r.heap, Node(h[a].kind, "", 0, r.at)) ELSE Nothing(h)
    ELSE Nothing(h)

\* lines 197-210
cloneFunction(h, a) ==
  IF Len(h[a].ch) >= 1
    THEN LET r == cloneEach(h, SubSeq(h[a].ch, 1, 1)) IN
         IF AllCloned(r)
           THEN New(r.heap, [kind |-> "Function", op |-> "", val |-> h[a].val,
                             ch |-> r.at, params |-> h[a].params])
           ELSE Nothing(h)
    ELSE Nothing(h)

\* lines 212-214
cloneBreak(h, a) == New(h, Node("Break", "", 0, <<>>))

\* lines 216-218
cloneContinue(h, a) == New(h, Node("Continue", "", 0, <<>>))

\* lines 10-33: clone of the node at address a, [heap, at]
ASTCloner_clone(h, a) ==
  LET kind == h[a].kind IN
  CASE kind = "Block"        -> cloneBlock(h, a)
    [] kind = "While"        -> cloneWhile(h, a)
    [] kind = "If"           -> cloneIf(h, a)
    [] kind = "Return"       -> cloneReturn(h, a)
    [] kind = "Math2"        -> cloneMath2(h, a)
    [] kind = "Math1"        -> cloneMath1(h, a)
    [] kind = "Var"          -> cloneVar(h, a)
    [] kind = "IntLit"       -> cloneIntLit(h, a)
    [] kind = "FloatLit"     -> cloneFloatLit(h, a)
    [] kind = "CharLit"      -> cloneCharLit(h, a)
    [] kind = "StringLit"    -> cloneStringLit(h, a)
    [] kind = "FunctionCall" -> cloneFunctionCall(h, a)
    [] kind = "Indexing"     -> cloneIndexing(h, a)
    [] kind \in {"Size", "ToDouble", "ToInt", "ToString"} -> cloneConversion(h, a)
    [] kind = "Function"     -> cloneFunction(h, a)
    [] kind = "Break"        -> cloneBreak(h, a)
    [] kind = "Continue"     -> cloneContinue(h, a)
    [] OTHER                 -> Nothing(h)

\* the nodes of the tree t made on the heap h, children first: [heap, at]
RECURSIVE Store(_, _)
RECURSIVE StoreEach(_, _)
Store(h, t) ==
  LET kids == StoreEach(h, t.ch)
  IN New(kids.heap, [t EXCEPT !.ch = kids.at])

StoreEach(h, ts) ==
  IF Len(ts) = 0 THEN [heap |-> h, at |-> <<>>]
  ELSE LET first == Store(h, Head(ts))
           rest  == StoreEach(first.heap, Tail(ts))
       IN [heap |-> rest.heap, at |-> <<first.at>> \o rest.at]

\* the tree whose root is at address a, Null for an empty pointer
RECURSIVE TreeAt(_, _)
TreeAt(h, a) ==
  IF a = 0 THEN Null
  ELSE [h[a] EXCEPT !.ch = [i \in 1..Len(h[a].ch) |-> TreeAt(h, h[a].ch[i])]]

\* the addresses of the nodes of the tree whose root is at address a
RECURSIVE NodesOf(_, _)
NodesOf(h, a) ==
  IF a = 0 THEN {}
  ELSE {a} \cup UNION {NodesOf(h, h[a].ch[i]) : i \in 1..Len(h[a].ch)}

-----------------------------------------------------------------------------
(* Specification SpecClone: ASTCloner::clone on one tree of a family that   *)
(* holds every node kind, nested up to MaxNest deep, and nodes that lack a  *)
(* child.                                                                   *)

MaxNest == 2

WithoutChild ==
  {Node("Return", "", 0, <<>>), Node("Math2", "+", 0, <<IntLit(1)>>),
   Node("While", "", 0, <<Var(1)>>), Node("If", "", 0, <<Var(1)>>)}

Leaves ==
  {IntLit(5), FloatLit(15), CharLit(97), StringLit("hi"), Var(1), Break, Continue}

\* the node x inside a node of each kind
Around(x) ==
  {x, Math1("-", x), Math2("*", x, Var(2)), Math2("=", Var(2), x),
   ToInt(x), ToDouble(x), ToStr(x), Size(x), Indexing(StringLit("s"), x),
   Return(x), While(x, Block(<<>>)), If2(Var(2), x), If3(x, Break, Continue),
   Block(<<IntLit(0), x, Break>>), Call(7, <<x, Var(2)>>),
   Function(3, <<1, 2>>, Block(<<x>>))}

RECURSIVE Nested(_)
Nested(depth) ==
  IF depth = 0 THEN Leaves \cup WithoutChild
  ELSE UNION {Around(x) : x \in Nested(depth - 1)}

InitClone ==
  /\ OrderIdle /\ UnrollIdle /\ TailIdle /\ InlineIdle /\ MainIdle /\ WalkIdle
  /\ cFormat \in CharLitFormats
  /\ \E t \in Nested(MaxNest) :
       LET made == Store(<<>>, t) IN cHeap = made.heap /\ cRoot = made.at
  /\ cCopy = 0
  /\ cPc = "clone"

\* copy = ASTCloner::clone(*root)
Clone ==
  /\ cPc = "clone"
  /\ LET r == ASTCloner_clone(cHeap, cRoot) IN
     /\ cHeap' = r.heap
     /\ cCopy' = r.at
  /\ cPc' = "done"
  /\ UNCHANGED <<cRoot, cFormat>>
  /\ UNCHANGED <<orderVars, unrollVars, tailVars, inlineVars, mainVars, walkVars>>

NextClone == Clone

SpecClone == InitClone /\ [][NextClone]_vars

-----------------------------------------------------------------------------
(* Claims C13, C14                                                          *)

LeafKinds == {"IntLit", "FloatLit", "CharLit", "StringLit", "Var", "Break", "Continue"}
OneChildKinds == {"Math1", "ToInt", "ToDouble", "ToString", "Size", "Return", "Function"}
TwoChildKinds == {"Math2", "Indexing", "While"}

\* the number of children the node kind has, and so at every depth
RECURSIVE WellFormed(_)
WellFormed(t) ==
  /\ t # Null
  /\ \/ t.kind \in LeafKinds /\ Len(t.ch) = 0
     \/ t.kind \in OneChildKinds /\ Len(t.ch) = 1
     \/ t.kind \in TwoChildKinds /\ Len(t.ch) = 2
     \/ t.kind = "If" /\ Len(t.ch) \in {2, 3}
     \/ t.kind \in {"Block", "FunctionCall"}
  /\ \A i \in 1..Len(t.ch) : WellFormed(t.ch[i])

Original == TreeAt(cHeap, cRoot)
Copy == TreeAt(cHeap, cCopy)

\* kind occurs in the tree t
RECURSIVE Holds(_, _)
Holds(t, kind) == t.kind = kind \/ \E i \in 1..Len(t.ch) : Holds(t.ch[i], kind)

\* C13: clone of a well-formed node of any kind returns a tree (not an
\* empty pointer) that equals the node in kind, operator, literal value,
\* variable id, function id and children, in order and at every depth, and
\* that has no node in common with it.
C13_CloneTotalAndFaithful ==
  (cPc = "done" /\ WellFormed(Original)) =>
    /\ cCopy # 0
    /\ Copy = Original
    /\ NodesOf(cHeap, cCopy) \cap NodesOf(cHeap, cRoot) = {}

\* the same for the trees without a character literal
C13_FaithfulButCharLit ==
  ~Holds(Original, "CharLit") => C13_CloneTotalAndFaithful

\* a function holding a return statement has been cloned
C13_WitnessFunction ==
  /\ cPc = "done" /\ cCopy # 0
  /\ Original.kind = "Function" /\ Holds(Original, "Return")
  /\ Copy = Original

\* a character literal has been cloned, and the value of the clone is 0
C13_WitnessCharLit ==
  /\ cPc = "done" /\ cFormat = "CHAR_LIT:"
  /\ Original = Return(CharLit(97))
  /\ Copy = Return(CharLit(0))

\* clone returns an empty pointer for the child i of the node at address a
Uncloneable(a, i) == ASTCloner_clone(cHeap, cHeap[a].ch[i]).at = 0

\* as many children as t at the root and at every depth
RECURSIVE SameShape(_, _)
SameShape(c, t) ==
  /\ Len(c.ch) = Len(t.ch)
  /\ \A i \in 1..Len(t.ch) : SameShape(c.ch[i], t.ch[i])

\* C14: when clone returns an empty pointer for a child of a node, it
\* returns an empty pointer for the node, whatever the kind of the node,
\* and a tree clone returns has as many children as the original at every
\* depth.
C14_FailedChildEmptiesParent ==
  cPc = "done" =>
    /\ (\E i \in 1..Len(cHeap[cRoot].ch) : Uncloneable(cRoot, i)) => cCopy = 0
    /\ cCopy # 0 => SameShape(Copy, Original)

\* the same for the nodes that are neither a Block nor a FunctionCall
C14_ButBlockAndCall ==
  (~Holds(Original, "Block") /\ ~Holds(Original, "FunctionCall"))
    => C14_FailedChildEmptiesParent

\* a While whose condition cannot be cloned: no clone
C14_WitnessWhile ==
  /\ cPc = "done" /\ cCopy = 0
  /\ Original.kind = "While" /\ Uncloneable(cRoot, 1)

-----------------------------------------------------------------------------
(* Specification SpecShapes: the unrolling pass and the two executions of   *)
(* SpecUnroll on a wider family of loops: the bound a literal or a          *)
(* variable, the step 0, and bodies holding statements of other kinds.      *)

BoundVar == 4
CalledId == 7

WideSteps == LoopSteps \cup {0}

\* if (v > 0) acc = acc + v;
GuardedStmt == If2(Math2(">", Var(LoopVar), IntLit(0)), AccStmt)
\* f(v);
CallStmt == Call(CalledId, <<Var(LoopVar)>>)
\* acc = acc + int(v);
ConvertedStmt == Assign(AccVar, Math2("+", Var(AccVar), ToInt(Var(LoopVar))))
\* acc = 'a';
LetterStmt == Assign(AccVar, CharLit(97))
\* aux = v = v + 0;
ChainedStmt == Assign(AuxVar, Assign(LoopVar, Math2("+", Var(LoopVar), IntLit(0))))

OtherStmts ==
  [guarded |-> GuardedStmt, called |-> CallStmt, converted |-> ConvertedStmt,
   lettered |-> LetterStmt, chained |-> ChainedStmt, stopped |-> Break]

WideShapes == {"last", "first"} \cup DOMAIN OtherStmts

\* the statement of the shape, then the induction assignment
WideBody(shape, step) ==
  IF shape \in DOMAIN OtherStmts
    THEN Block(<<AccStmt, OtherStmts[shape], IncrementStmt(step)>>)
    ELSE LoopBody(shape, step)

InitShapes ==
  /\ OrderIdle /\ TailIdle /\ InlineIdle /\ MainIdle /\ CloneIdle /\ WalkIdle
  /\ unrollFactor \in 2..MaxFactor
  /\ \E op \in LoopOps, bound \in {IntLit(MaxBound - 1), Var(BoundVar)},
        step \in WideSteps, shape \in WideShapes :
       uOriginal = While(Math2(op, Var(LoopVar), bound), WideBody(shape, step))
  /\ uBlock = Block(<<uOriginal>>)
  /\ uPc = "pass"
  /\ \E v0 \in 0..MaxBound :
       uStart = [ZeroLocals EXCEPT ![LoopVar] = v0, ![BoundVar] = MaxBound - 1]
  /\ uEnvO = Env(uStart)
  /\ uEnvT = Env(uStart)
  /\ uIters = [orig |-> 0, main |-> 0, rem |-> 0]

SpecShapes == InitShapes /\ [][NextUnroll]_vars

-----------------------------------------------------------------------------
(* Claims C15 .. C20                                                        *)

\* the pass has run and has put Block { main loop; remainder loop } in the
\* place of the loop / has left the loop as it was
Unrolled == uPc # "pass" /\ uPc # "idle" /\ Rewritten(uBlock)
LeftAlone == uBlock = Block(<<uOriginal>>)
PassDone == uPc # "pass" /\ uPc # "idle"

Condition == uOriginal.ch[1]
Body == uOriginal.ch[2]

\* the step k of the induction assignment v = v + k or v = v - (-k) of the body
InductionStep ==
  CHOOSE k \in WideSteps : \E i \in 1..NumChildren(Body) : Body.ch[i] = IncrementStmt(k)

\* C15: a While is rewritten only if the step of its induction assignment
\* v = v + k or v = v - k has absolute value 1; a loop with step 0 or with a
\* step of absolute value above 1 is left as it was.
C15_OnlyUnitSteps ==
  PassDone =>
    /\ Unrolled => Abs(InductionStep) = 1
    /\ Abs(InductionStep) # 1 => LeftAlone

\* C16: a While is rewritten only if its condition compares, with <, <=, >
\* or >=, a variable on the left with an integer literal on the right; a
\* loop whose condition uses == or !=, or whose bound is a variable, is left
\* as it was.
C16_OnlyLiteralBounds ==
  PassDone =>
    /\ Unrolled => /\ Condition.op \in {"<", "<=", ">", ">="}
                   /\ Condition.ch[1].kind = "Var"
                   /\ Condition.ch[2].kind = "IntLit"
    /\ (Condition.op \in {"==", "!="} \/ Condition.ch[2].kind = "Var") => LeftAlone

DirectionAgrees ==
  \/ Condition.op \in {"<", "<="} /\ InductionStep > 0
  \/ Condition.op \in {">", ">="} /\ InductionStep < 0

\* C17: a While is rewritten only if the direction of the step agrees with
\* the comparison (< or <= with a positive step, > or >= with a negative
\* one); a loop whose step goes the other way is left as it was, and the
\* condition of a main loop is never the original condition.
C17_DirectionAgrees ==
  PassDone =>
    /\ Unrolled => DirectionAgrees
    /\ (Condition.op \in {"<", "<=", ">", ">="} /\ ~DirectionAgrees) => LeftAlone
    /\ Unrolled => MainLoop.ch[1] # Condition

\* every node of the tree t is of one of the kinds
RECURSIVE OnlyKinds(_, _)
OnlyKinds(t, kinds) ==
  t.kind \in kinds /\ \A i \in 1..NumChildren(t) : OnlyKinds(t.ch[i], kinds)

\* the statements of the body other than the induction assignment
OtherStatements ==
  SelectSeq(Body.ch, LAMBDA st : st # IncrementStmt(InductionStep))

\* C18: when a statement of the body of a candidate loop cannot be cloned
\* by the pass (an If, a call, an expression holding a character literal or
\* a conversion), the loop is left as it was; the remainder loop of a
\* rewritten loop has every statement of the body and its main loop has a
\* clone of every statement but the induction assignment for each of the
\* factor copies.
C18_UncloneableAborts ==
  PassDone =>
    /\ (\E i \in 1..NumChildren(Body) :
          ~OnlyKinds(Body.ch[i], {"Math2", "Var", "IntLit"})) => LeftAlone
    /\ Unrolled =>
         /\ NumChildren(RemainderLoop.ch[2]) = NumChildren(Body)
         /\ NumChildren(MainLoop.ch[2]) = unrollFactor * Len(OtherStatements) + 1

\* the assignments, at any depth of the tree t, whose target is not a
\* variable or is the variable v
RECURSIVE AssignsTo(_, _)
AssignsTo(t, v) ==
  \/ /\ t.kind = "Math2" /\ t.op = "=" /\ NumChildren(t) >= 1
     /\ (t.ch[1].kind = "Var" => t.ch[1].val = v)
  \/ \E i \in 1..NumChildren(t) : AssignsTo(t.ch[i], v)

\* C20: the body of a main loop ends in v = v + factor * step, and no
\* statement before it holds, at any depth, an assignment to v or an
\* assignment whose target is an expression v + k.
C20_OneInductionAssignment ==
  Unrolled =>
    LET stmts == MainLoop.ch[2].ch IN
    /\ Len(stmts) >= 1
    /\ stmts[Len(stmts)] =
         Assign(LoopVar, Math2("+", Var(LoopVar), IntLit(unrollFactor * InductionStep)))
    /\ \A i \in 1..(Len(stmts) - 1) : ~AssignsTo(stmts[i], LoopVar)

\* the main loop has exited
MainExited == uPc \in {"rem", "done"} \/ (uPc = "capped" /\ uIters.rem > 0)

FourForms == {"<", "<=", ">", ">="}

\* C19 as stated: once the main loop has exited, the remainder loop runs at
\* most factor - 1 times, for each of <, <=, > and >=.
C19_AsStated ==
  (MainExited /\ Condition.op \in FourForms) => uIters.rem <= unrollFactor - 1

\* C19: once the main loop has exited, the remainder loop runs at most
\* factor - 1 times when the comparison is < or >, and at most factor times
\* when it is <= or >=, for every initial value and bound.
C19_RemainderBound ==
  (MainExited /\ Condition.op \in FourForms) =>
    uIters.rem <= IF Condition.op \in {"<", ">"} THEN unrollFactor - 1 ELSE unrollFactor

\* a loop with <= whose remainder loop has run factor times after a turn
\* of the main loop
C19_Witness ==
  /\ uPc = "done"
  /\ Condition.op = "<=" /\ InductionStep = 1
  /\ uIters.main >= 1
  /\ uIters.rem = unrollFactor

-----------------------------------------------------------------------------
(* Specification SpecLoopify: the tail-call pass run twice on one function  *)
(*   f(p1, p2) : T { if (p1 <= 0) return p2;  [one more statement]  last }  *)
(* of a family whose statements hold literals of every kind, conversions,   *)
(* calls and a user-written while, and whose last statement is a self tail  *)
(* call, one the pass does not rewrite, or an If that holds one.            *)

ReturnTypes == {"int", "double", "char"}

TwoParams == <<ParamVar, ArgVar>>

\* f(p1 - 1, p2)
StepCall == Call(SelfId, <<Math2("-", Var(ParamVar), IntLit(1)), Var(ArgVar)>>)

\* while (p1 > 5) { return f(p1 - 1, p2); }
LoopWithTailReturn ==
  While(Math2(">", Var(ParamVar), IntLit(5)), Block(<<Return(StepCall)>>))

\* while (p1 > 5) { if (p2 > 0) return f(p1 - 1, p2); x = p1; }
LoopWithGuardedReturn ==
  While(Math2(">", Var(ParamVar), IntLit(5)),
        Block(<<If2(Math2(">", Var(ArgVar), IntLit(0)), Return(StepCall)),
                Assign(LocalVar, Var(ParamVar))>>))

MiddleStmts ==
  [none       |-> <<>>,
   plain      |-> <<Assign(LocalVar, Math2("+", Var(ParamVar), IntLit(2)))>>,
   negated    |-> <<Assign(LocalVar, Math1("-", Var(ParamVar)))>>,
   lettered   |-> <<Assign(LocalVar, CharLit(97))>>,
   floated    |-> <<Assign(LocalVar, FloatLit(2))>>,
   worded     |-> <<Assign(LocalVar, Size(StringLit("ab")))>>,
   toInt      |-> <<Assign(LocalVar, ToInt(Var(ParamVar)))>>,
   toDouble   |-> <<Assign(LocalVar, Math2("+", ToDouble(Var(ParamVar)), IntLit(1)))>>,
   toString   |-> <<Assign(LocalVar, Size(ToStr(Var(ParamVar))))>>,
   called     |-> <<Call(KeepId, <<ToInt(Var(ParamVar)), Var(ArgVar)>>)>>,
   looped     |-> <<LoopWithTailReturn>>,
   loopedIf   |-> <<LoopWithGuardedReturn>>,
   nested     |-> <<Block(<<Assign(LocalVar, Var(ArgVar)), LoopWithTailReturn>>)>>]

LastStmts ==
  [tail     |-> Return(StepCall),
   swapped  |-> Return(Call(SelfId, <<Var(ArgVar), Var(ParamVar)>>)),
   short    |-> Return(Call(SelfId, <<Var(ArgVar)>>)),
   other    |-> Return(Call(KeepId, <<Var(ParamVar), Var(ArgVar)>>)),
   value    |-> Return(Var(ArgVar)),
   branched |-> If3(Math2("==", Var(ParamVar), IntLit(1)),
                    Return(StepCall), Block(<<Return(Var(ArgVar))>>)),
   guarded  |-> Block(<<If2(Math2("==", Var(ParamVar), IntLit(1)), Return(StepCall)),
                        Return(Var(ArgVar))>>)]

LoopifyBodies ==
  {Block(<<BaseCase(2)>> \o MiddleStmts[m] \o <<LastStmts[l]>>) :
     m \in DOMAIN MiddleStmts, l \in DOMAIN LastStmts}
  \cup {Return(StepCall)}

InitLoopify ==
  /\ OrderIdle /\ UnrollIdle /\ InlineIdle /\ MainIdle /\ CloneIdle /\ WalkIdle
  /\ \E body \in LoopifyBodies : tOriginal = Function(SelfId, TwoParams, body)
  /\ tType \in ReturnTypes
  /\ tFn = tOriginal
  /\ tFirst = Null
  /\ tPc = "pass"
  /\ tUb = FALSE
  /\ tResult = NoResult

\* TailRecursionPass::run, on the function as parsed and then once more on
\* the function the first run left
LoopifyPass ==
  /\ tPc \in {"pass", "again"}
  /\ \E hashOrder \in HashOrders(Len(tFn.params)) :
       LET r == Tail_run(tFn, TRUE, hashOrder) IN
       /\ tFn' = r.node
       /\ tFirst' = IF tPc = "pass" THEN r.node ELSE tFirst
       /\ tUb' = (tUb \/ r.ub)
  /\ tPc' = IF tPc = "pass" THEN "again" ELSE "done"
  /\ UNCHANGED <<tOriginal, tResult, tType>>
  /\ UNCHANGED <<orderVars, unrollVars, inlineVars, mainVars, cloneVars, walkVars>>

NextLoopify == LoopifyPass

SpecLoopify == InitLoopify /\ [][NextLoopify]_vars

-----------------------------------------------------------------------------
(* Claims C21 .. C24, C28                                                   *)

\* the first run of the pass is over
FirstRunDone == tPc \in {"again", "done"}

\* the body of the loop of a loopified function
SyntheticBody(fn) == fn.ch[1].ch[1].ch[2]

\* the default value of a type
DefaultOf(type) ==
  CASE type = "int" -> IntLit(0)
    [] type = "double" -> FloatLit(0)
    [] type = "char" -> CharLit(0)

\* C21: the body of a loopified function is Block { While(1) { .. };
\* Return d }: two children in that order, d the default value of the
\* return type of the function.
C21_WrapperAndDefault ==
  (FirstRunDone /\ Loopified(tFirst)) =>
    /\ NumChildren(tFirst.ch[1]) = 2
    /\ tFirst.ch[1].ch[1].kind = "While"
    /\ tFirst.ch[1].ch[1].ch[1] = IntLit(1)
    /\ tFirst.ch[1].ch[2] = Return(DefaultOf(tType))

\* the same for the functions that return an int
C21_IntFunctions == tType = "int" => C21_WrapperAndDefault

\* return f(a1, a2) with f the function itself
SelfTailReturn(n) ==
  /\ n.kind = "Return" /\ NumChildren(n) = 1
  /\ n.ch[1].kind = "FunctionCall" /\ n.ch[1].val = tOriginal.val
  /\ NumChildren(n.ch[1]) = Len(tOriginal.params)

\* the two assignments p1 := a1, p2 := a2 each read the other parameter
CyclicArgs(args) ==
  \E i, j \in 1..Len(args) :
    /\ i # j
    /\ args[i] # Var(tOriginal.params[i]) /\ args[j] # Var(tOriginal.params[j])
    /\ tOriginal.params[j] \in VarsOf(args[i])
    /\ tOriginal.params[i] \in VarsOf(args[j])

\* the statement is, or holds in a branch of an If or in a Block, a self
\* tail call whose assignments can be ordered
RECURSIVE Rewritable(_)
Rewritable(n) ==
  CASE n.kind = "Return" -> SelfTailReturn(n) /\ ~CyclicArgs(n.ch[1].ch)
    [] n.kind = "If" -> \E i \in 2..NumChildren(n) : Rewritable(n.ch[i])
    [] n.kind = "Block" -> \E i \in 1..NumChildren(n) : Rewritable(n.ch[i])
    [] OTHER -> FALSE

\* C22: when the body of a function is not a Block, or no return in any
\* branch of it is a self tail call the pass rewrites (none, wrong number
\* of arguments, cyclic), the function is left as it was.
C22_NoRewriteNoTouch ==
  (FirstRunDone /\ ~(tOriginal.ch[1].kind = "Block" /\ Rewritable(tOriginal.ch[1])))
    => tFirst = tOriginal

\* a function whose last statement is the cyclic return f(p2, p1)
C22_Witness ==
  /\ FirstRunDone /\ tFirst = tOriginal
  /\ tOriginal.ch[1].kind = "Block"
  /\ Last(tOriginal.ch[1].ch) = LastStmts.swapped

\* a function whose body is the single statement return f(p1 - 1, p2)
C22_WitnessNotBlock ==
  /\ FirstRunDone /\ tFirst = tOriginal
  /\ tOriginal.ch[1] = Return(StepCall)

\* the subtrees of t
RECURSIVE Subtrees(_)
Subtrees(t) == {t} \cup UNION {Subtrees(t.ch[i]) : i \in 1..NumChildren(t)}

UserLoops(t) == {w \in Subtrees(t) : w.kind = "While"}

\* t holds a Continue whose innermost enclosing loop is a While of t
RECURSIVE HoldsContinue(_)
HoldsContinue(t) ==
  t.kind = "Continue" \/ \E i \in 1..NumChildren(t) : HoldsContinue(t.ch[i])

\* C23: in a loopified function no While inside the synthetic loop holds a
\* Continue, and the user-written loops are the loops of the original body,
\* their return f(..) statements included.
C23_ContinueOnlyInSyntheticLoop ==
  (FirstRunDone /\ Loopified(tFirst)) =>
    /\ \A w \in UserLoops(SyntheticBody(tFirst)) : ~HoldsContinue(w)
    /\ UserLoops(SyntheticBody(tFirst)) = UserLoops(tOriginal.ch[1])

\* a loopified function with a return f(..) inside a user-written loop
C23_Witness ==
  /\ tPc = "again" /\ Loopified(tFirst)
  /\ \E w \in UserLoops(SyntheticBody(tFirst)) :
       \E r \in Subtrees(w) : SelfTailReturn(r)

AsBlock(n) == IF n.kind = "Block" THEN n ELSE Block(<<n>>)

\* a statement the pass does not rewrite, as the transformed body is to
\* hold it: the branches of an If wrapped in a Block, the rest unchanged
RECURSIVE Kept(_)
Kept(n) ==
  CASE n.kind = "If" ->
         [n EXCEPT !.ch = [i \in 1..NumChildren(n) |->
                             IF i = 1 THEN n.ch[1] ELSE AsBlock(Kept(n.ch[i]))]]
    [] n.kind = "Block" ->
         [n EXCEPT !.ch = [i \in 1..NumChildren(n) |-> Kept(n.ch[i])]]
    [] OTHER -> n

\* C24: the transformed body of a loopified function has a statement for
\* each statement of the original body, in the same order, and every
\* statement that holds no rewritten tail return is unchanged: same kinds,
\* operators, literal values, ids and arguments.
C24_StatementsKept ==
  (FirstRunDone /\ Loopified(tFirst)) =>
    LET old == tOriginal.ch[1].ch
        new == SyntheticBody(tFirst).ch
    IN /\ Len(new) = Len(old)
       /\ \A i \in 1..Len(old) :
            (i <= Len(new) /\ ~Rewritable(old[i])) => new[i] = Kept(old[i])

\* the same for the functions without a character literal or a conversion
C24_ButLettersAndConversions ==
  (\A t \in Subtrees(tOriginal.ch[1]) :
     t.kind \notin {"CharLit", "ToInt", "ToDouble", "ToString"})
    => C24_StatementsKept

\* C28: a second run of the pass on a loopified function leaves it as the
\* first run left it.
C28_SecondRunChangesNothing ==
  (tPc = "done" /\ Loopified(tFirst)) => tFn = tFirst

\* two runs on a function that was loopified and still holds a
\* return f(..), inside a user-written loop
C28_Witness ==
  /\ tPc = "done" /\ Loopified(tFirst) /\ tFn = tFirst
  /\ \E r \in Subtrees(SyntheticBody(tFn)) : SelfTailReturn(r)

-----------------------------------------------------------------------------
(* Specification SpecCallees: the inlining pass and the two calls of         *)
(* SpecInline on a wider family: callees whose return expression holds a    *)
(* character literal under a conversion or a unary operator, and arguments  *)
(* that are calls.                                                          *)

MoreCalleeShapes == {"convert", "negchar"}

WideCallee(shape) ==
  CASE shape \in CalleeShapes -> Callee(shape)
    [] shape = "convert" ->
         Function(CalleeId, <<>>, Block(<<Return(ToInt(CharLit(99)))>>))
    [] shape = "negchar" ->
         Function(CalleeId, <<>>, Block(<<Return(Math1("-", CharLit(99)))>>))

WideArgumentExprs ==
  ArgumentExprs \cup {Call(KeepId, <<Var(ArgVar)>>), Call(KeepId, <<CharLit(99)>>),
                      Math2("+", Call(OneId, <<>>), IntLit(1))}

WideCallsOf(shape) ==
  IF Len(WideCallee(shape).params) = 0 THEN {Call(CalleeId, <<>>)}
  ELSE {Call(CalleeId, <<a>>) : a \in WideArgumentExprs}

InitCallees ==
  /\ OrderIdle /\ UnrollIdle /\ TailIdle /\ MainIdle /\ CloneIdle /\ WalkIdle
  /\ \E shape \in CalleeShapes \cup MoreCalleeShapes :
       \E c \in WideCallsOf(shape) : \E position \in Positions :
         iOriginal = <<One, Keep, WideCallee(shape), Caller(position, c)>>
  /\ iProg = iOriginal
  /\ iFm = {}
  /\ iNext = 1
  /\ iPc = "pass"
  /\ iResult = NoResult

SpecCallees == InitCallees /\ [][NextInline]_vars

-----------------------------------------------------------------------------
(* Claims C25 .. C27                                                        *)

\* the pass has run on every function
InlineDone == iPc \in {"call", "done"}

\* the call of the callee in the caller, and whether it was replaced
TheCall == CHOOSE c \in Subtrees(TheCaller) : c.kind = "FunctionCall" /\ c.val = CalleeId
Inlined == iProg[4] # TheCaller

\* the return expression of the callee (every callee of the family but
\* "two" is the single statement return e)
CalleeExpr == Last(TheCallee.ch[1].ch).ch[1]

Uses(i) == countVarUsage(CalleeExpr, TheCallee.params[i])

\* C25: a call is inlined only if every parameter of the callee occurs at
\* most once in the return expression of the callee, whatever the argument.
C25_NoParameterTwice ==
  (InlineDone /\ Inlined) => \A i \in 1..Len(TheCallee.params) : Uses(i) <= 1

\* the same for the arguments that are calls or have more than three nodes
C25_ButSmallPureArguments ==
  (\A i \in 1..NumChildren(TheCall) :
     hasSideEffects(TheCall.ch[i]) \/ NodeCount(TheCall.ch[i]) > 3)
    => C25_NoParameterTwice

\* the expression is or holds a function call
HoldsCall(e) == \E t \in Subtrees(e) : t.kind = "FunctionCall"

\* C26: when the return expression of the callee does not use a parameter
\* and the argument for it is or holds a function call, the call is not
\* inlined.
C26_UnusedArgumentWithCall ==
  (InlineDone /\ \E i \in 1..Len(TheCallee.params) :
                   Uses(i) = 0 /\ i <= NumChildren(TheCall) /\ HoldsCall(TheCall.ch[i]))
    => ~Inlined

\* the same for the parameters the return expression uses
C26_ButUnusedParameters ==
  (\A i \in 1..Len(TheCallee.params) : Uses(i) >= 1) => C26_UnusedArgumentWithCall

\* t holds an empty child, or the trace of a dereference of one
RECURSIVE HoldsEmpty(_)
HoldsEmpty(t) ==
  t.kind \in {"Null", "DerefNull"} \/ \E i \in 1..NumChildren(t) : HoldsEmpty(t.ch[i])

\* a node the cloner of the pass has no case for
HoldsLetter(e) == \E t \in Subtrees(e) : t.kind = "CharLit"

\* C27: when the return expression of the callee or an argument of the call
\* holds a node the cloner of the pass cannot clone (a character literal),
\* the call stays in place, and the caller never holds an empty child.
C27_FailedCloneKeepsCall ==
  InlineDone =>
    /\ (HoldsLetter(CalleeExpr) \/ \E i \in 1..NumChildren(TheCall) : HoldsLetter(TheCall.ch[i]))
         => ~Inlined
    /\ ~HoldsEmpty(iProg[4])

\* the same for the programs without a character literal
C27_ButLetters ==
  ~(HoldsLetter(CalleeExpr) \/ \E i \in 1..NumChildren(TheCall) : HoldsLetter(TheCall.ch[i]))
    => C27_FailedCloneKeepsCall

\* the same for the callee return 'c'
C27_BareLetter == CalleeExpr = CharLit(99) => C27_FailedCloneKeepsCall

-----------------------------------------------------------------------------
(* Specification SpecWalk: LoopUnrollingPass::run on the Block that is the  *)
(* body of a function, one turn of the loops of run and processBlock per    *)
(* step.  A node is named by its path, the child indices from the root.  A  *)
(* frame is a call in progress: [at, pass, i, replacements] with pass 0 for *)
(* the child loop of run, 1 and 3 for the first and third loop of           *)
(* processBlock.                                                            *)

MaxRewrites == 6

RECURSIVE NodeAt(_, _)
NodeAt(t, path) ==
  IF path = <<>> THEN t ELSE NodeAt(t.ch[Head(path)], Tail(path))

RECURSIVE PutAt(_, _, _)
PutAt(t, path, n) ==
  IF path = <<>> THEN n
  ELSE [t EXCEPT !.ch[Head(path)] = PutAt(@, Tail(path), n)]

Frame(at, pass) == [at |-> at, pass |-> pass, i |-> 1, replacements |-> <<>>]

Top == bStack[Len(bStack)]
Here == NodeAt(bTree, Top.at)

\* the stack with the innermost frame moved on to its next child
Advanced == [bStack EXCEPT ![Len(bStack)].i = @ + 1]

\* run(node) called from the innermost frame, for the node at path at: a
\* Block starts processBlock, another node with children the child loop
\* of run, a node without children returns at once
Entered(at) ==
  LET node == NodeAt(bTree, at) IN
  IF node.kind = "Block" THEN Append(Advanced, Frame(at, 1))
  ELSE IF NumChildren(node) > 0 THEN Append(Advanced, Frame(at, 0))
  ELSE Advanced

\* run, lines 393-399: run(parent->GetChild(i))
VisitChild ==
  /\ bPc = "walk" /\ Top.pass = 0 /\ Top.i <= NumChildren(Here)
  /\ bStack' = Entered(Top.at \o <<Top.i>>)
  /\ UNCHANGED <<bOriginal, bTree, bFactor, bLog, bPc>>
  /\ UNCHANGED <<orderVars, unrollVars, tailVars, inlineVars, mainVars, cloneVars>>

\* processBlock, first loop (lines 416-433): a replacement is built for an
\* unrollable While, run is called on a child that is not a While
FirstPass ==
  /\ bPc = "walk" /\ Top.pass = 1 /\ Top.i <= NumChildren(Here)
  /\ LET child == Here.ch[Top.i] IN
     IF child.kind = "While" THEN
       IF isUnrollableLoop(child)
         THEN bStack' = [Advanced EXCEPT ![Len(bStack)].replacements =
                           Append(@, [index |-> Top.i,
                                      block |-> createUnrolledBlock(child, analyzeLoop(child),
                                                                    bFactor)])]
         ELSE bStack' = Advanced
     ELSE bStack' = Entered(Top.at \o <<Top.i>>)
  /\ UNCHANGED <<bOriginal, bTree, bFactor, bLog, bPc>>
  /\ UNCHANGED <<orderVars, unrollVars, tailVars, inlineVars, mainVars, cloneVars>>

RECURSIVE Installed(_, _, _)
Installed(t, at, replacements) ==
  IF replacements = <<>> THEN t
  ELSE LET r == replacements[Len(replacements)] IN
       Installed(PutAt(t, at \o <<r.index>>, r.block), at,
                 SubSeq(replacements, 1, Len(replacements) - 1))

\* processBlock, second loop (lines 436-442): the replacements are put in
\* the block, last first
Install ==
  /\ bPc = "walk" /\ Top.pass = 1 /\ Top.i > NumChildren(Here)
  /\ bTree' = Installed(bTree, Top.at, Top.replacements)
  /\ bLog' = bLog \o [k \in 1..Len(Top.replacements) |->
                        Top.at \o <<Top.replacements[Len(Top.replacements) + 1 - k].index>>]
  /\ bStack' = [bStack EXCEPT ![Len(bStack)].pass = 3, ![Len(bStack)].i = 1]
  /\ bPc' = IF Len(bLog') >= MaxRewrites THEN "capped" ELSE "walk"
  /\ UNCHANGED <<bOriginal, bFactor>>
  /\ UNCHANGED <<orderVars, unrollVars, tailVars, inlineVars, mainVars, cloneVars>>

\* processBlock, third loop (lines 445-467): run on the body of a While
\* that was not replaced and on a child Block that was not replaced
ThirdPass ==
  /\ bPc = "walk" /\ Top.pass = 3 /\ Top.i <= NumChildren(Here)
  /\ LET child == Here.ch[Top.i]
         wasReplaced == \E k \in 1..Len(Top.replacements) : Top.replacements[k].index = Top.i
     IN IF wasReplaced THEN bStack' = Advanced
        ELSE IF child.kind = "While" THEN
          IF NumChildren(child) > 1
            THEN bStack' = Entered(Top.at \o <<Top.i, 2>>)
            ELSE bStack' = Advanced
        ELSE IF child.kind = "Block" THEN bStack' = Entered(Top.at \o <<Top.i>>)
        ELSE bStack' = Advanced
  /\ UNCHANGED <<bOriginal, bTree, bFactor, bLog, bPc>>
  /\ UNCHANGED <<orderVars, unrollVars, tailVars, inlineVars, mainVars, cloneVars>>

\* the innermost call returns; the run is over when none is left
WalkReturn ==
  /\ bPc = "walk" /\ Top.pass \in {0, 3} /\ Top.i > NumChildren(Here)
  /\ bStack' = SubSeq(bStack, 1, Len(bStack) - 1)
  /\ bPc' = IF Len(bStack) = 1 THEN "done" ELSE "walk"
  /\ UNCHANGED <<bOriginal, bTree, bFactor, bLog>>
  /\ UNCHANGED <<orderVars, unrollVars, tailVars, inlineVars, mainVars, cloneVars>>

\* while (v < 3) { acc = acc + v; v = v + 1; }  and its mirror
CountedLoop == While(Math2("<", Var(LoopVar), IntLit(3)), LoopBody("last", 1))
DownLoop == While(Math2(">", Var(LoopVar), IntLit(0)), LoopBody("middle", -1))

\* while (aux < 2) body: no induction assignment, not unrollable
OuterLoop(body) == While(Math2("<", Var(AuxVar), IntLit(2)), body)

WalkLoops == {CountedLoop, DownLoop}

WalkBlocks ==
  UNION {{Block(<<l>>),
          Block(<<AccStmt, l, DownLoop>>),
          Block(<<OuterLoop(Block(<<l, AuxStmt>>))>>),
          Block(<<OuterLoop(Block(<<OuterLoop(Block(<<l>>))>>)), l>>),
          Block(<<If2(Math2(">", Var(AccVar), IntLit(0)), Block(<<l>>)), Return(Var(AccVar))>>),
          Block(<<If3(Var(AuxVar), Block(<<l>>), OuterLoop(Block(<<l>>)))>>),
          Block(<<Block(<<l>>)>>),
          Block(<<AccStmt, Block(<<AuxStmt, l>>), l>>),
          Block(<<OuterLoop(Block(<<Block(<<l>>)>>))>>),
          Block(<<Block(<<OuterLoop(Block(<<AuxStmt>>)), AccStmt>>)>>)} : l \in WalkLoops}

InitWalk ==
  /\ OrderIdle /\ UnrollIdle /\ TailIdle /\ InlineIdle /\ MainIdle /\ CloneIdle
  /\ bOriginal \in WalkBlocks
  /\ bTree = bOriginal
  /\ bFactor \in 2..MaxFactor
  /\ bStack = <<Frame(<<>>, 1)>>
  /\ bLog = <<>>
  /\ bPc = "walk"

NextWalk == VisitChild \/ FirstPass \/ Install \/ ThirdPass \/ WalkReturn

SpecWalk == InitWalk /\ [][NextWalk]_vars

-----------------------------------------------------------------------------
(* Claim C29                                                                *)

\* C29: in one run of the pass no loop is replaced twice and no loop
\* inside a replacement (a main or a remainder loop) is replaced: the place
\* of a replaced loop is never at or below the place of an earlier one,
\* whatever the nesting of the blocks.
C29_RewrittenOnce ==
  \A k, l \in 1..Len(bLog) : k < l => ~IsPrefix(bLog[k], bLog[l])

\* a Block that is a child of a Block
BlockInBlock(t) ==
  \E b \in Subtrees(t) : b.kind = "Block" /\ \E i \in 1..NumChildren(b) : b.ch[i].kind = "Block"

\* the same for the functions without a Block that is a child of a Block
C29_ButBlockInBlock == ~BlockInBlock(bOriginal) => C29_RewrittenOnce

\* the walk ends, with the tree processBlock gives as a whole, when no Block
\* is a child of a Block
WalkAgrees ==
  ~BlockInBlock(bOriginal) =>
    /\ bPc # "capped"
    /\ bPc = "done" => bTree = processBlock(bOriginal, bFactor)

\* the run does not end: the same sub-block is entered again and again and
\* a loop is replaced at every turn
WalkCapped == bPc = "capped"

-----------------------------------------------------------------------------
(* Claim C30                                                                *)

\* the flags after the file name as a bag: each flag with the number of
\* times it is given
FlagBag ==
  [f \in {GivenFlags[k] : k \in 1..Len(GivenFlags)} |->
     Cardinality({k \in 1..Len(GivenFlags) : GivenFlags[k] = f})]

\* a flag main takes when it is the only one
TakenAlone(f) ==
  \/ f \in {"--no-unroll", "--no-inline", "--tail=loop", "--tail=off"}
  \/ /\ StartsWith(f, "--unroll-factor=")
     /\ Stoi(Substr(f, 16)).ok
     /\ Stoi(Substr(f, 16)).val \in 1..16
  \/ /\ StartsWith(f, "--pass-order=")
     /\ Len(f) > 13
     /\ ParsePassOrderSpec(Substr(f, 13)).ok

\* the bags of flags main turns down, told from the bag alone
BagRejected(b) ==
  LET given == DOMAIN b
      factors == {f \in given : StartsWith(f, "--unroll-factor=")}
  IN \/ \E f \in given : ~TakenAlone(f)
     \/ \E f \in factors : b[f] > 1
     \/ Cardinality(factors) > 1
     \/ {"--tail=loop", "--tail=off"} \subseteq given
     \/ /\ "--no-unroll" \in given
        /\ \E f \in factors : Stoi(Substr(f, 16)).ok /\ Stoi(Substr(f, 16)).val > 1

\* C30: whether a command line with a file name is accepted or ends in exit
\* code 1 depends on the bag of the flags after the file name only, not on
\* their order: main is past the flags exactly for the bags BagRejected
\* does not hold of, and ends in exit code 1 exactly for the others.
C30_OrderOfFlagsIrrelevant ==
  (argc >= 2 /\ argv[2] \notin {"--help", "-h"})
    => /\ Accepted => ~BagRejected(FlagBag)
       /\ pc = "exit" => (exitCode = 1 <=> BagRejected(FlagBag))
       /\ pc = "exit" /\ exitCode = 1 => Rejected

\* stopped at the factor, the second flag; with the two --tail flags first
\* the same bag is stopped at the second --tail flag
C30_Witness ==
  /\ Rejected
  /\ GivenFlags = <<"--tail=off", "--unroll-factor=0", "--tail=loop">>
  /\ argi = 3

\* the same three flags, the --tail flags first
C30_WitnessOtherOrder ==
  /\ Rejected
  /\ GivenFlags = <<"--tail=loop", "--tail=off", "--unroll-factor=0">>
  /\ argi = 3

\* three flags that go together, compiled
C30_WitnessAccepted ==
  /\ Finished
  /\ GivenFlags = <<"--unroll-factor=1", "--tail=off", "--no-unroll">>

====
